---- MODULE Spec2Model ----
(***************************************************************************)
(* latency-lab: the benchmark results persistence layer.                   *)
(*                                                                         *)
(*   scripts/run_bench.py   the result index store (index.csv)             *)
(*   scripts/raw_format.py  the LLR sample codec                           *)
(*   scripts/results_lib.py the reader of stored runs                      *)
(*                                                                         *)
(* The index file is modelled as the sequence of its CSV records, each a   *)
(* sequence of text fields; Python dicts are functions from their keys to  *)
(* typed values (str, int, None), so that reading a record into a dict and *)
(* writing a dict as a record are real conversions.                        *)
(***************************************************************************)
EXTENDS Integers, Sequences, FiniteSets, TLC

VARIABLES
    index,      \* the index file: [exists, lines]
    before,     \* the index file as it was when the last write call began
    start,      \* the index file as it was found at the beginning
    hist,       \* the write calls made so far: <<[mode, row], ...>>
    wr,         \* the write call each process has in progress (step level)
    inp,        \* codec: the samples, header and unit given to the encoder
    llr,        \* codec: the container file: [exists, bytes]
    cut,        \* codec: how many bytes the file lost at its end
    enc,        \* codec: the outcome of the encode call
    dec,        \* codec: the outcome of the read_llr call
    it,         \* codec: the iter_llr_samples generator
    bad,        \* codec: what was done to the container's bytes after the encode
    csv,        \* the run directory's raw.csv: [exists, lines]
    ld,         \* the outcome of the load_samples call
    run         \* a run of main(): where it is, what it did, what it returned

ivars == <<index, before, start, hist, wr>>

cvars == <<inp, llr, cut, enc, dec, it, bad, csv, ld, run>>

vars == <<ivars, cvars>>

----------------------------------------------------------------------------
(* Bounds of the model.                                                    *)

MaxWrites == 3

----------------------------------------------------------------------------
(* Python values and the conversions the csv module and str() apply.       *)

S(s) == [t |-> "str", s |-> s, i |-> 0]
I(n) == [t |-> "int", s |-> "", i |-> n]
None == [t |-> "none", s |-> "", i |-> 0]

Range(s) == { s[k] : k \in 1..Len(s) }

RECURSIVE NatToStr(_)
NatToStr(n) ==
    IF n < 10 THEN SubSeq("0123456789", n + 1, n + 1)
    ELSE NatToStr(n \div 10) \o SubSeq("0123456789", (n % 10) + 1, (n % 10) + 1)

IntToStr(n) == IF n < 0 THEN "-" \o NatToStr(-n) ELSE NatToStr(n)

\* str(value), as _index_key applies it.
PyStr(v) ==
    CASE v.t = "str" -> v.s
      [] v.t = "int" -> IntToStr(v.i)
      [] OTHER -> "None"

\* The text the csv writer emits for a field: None becomes the empty field.
CsvField(v) ==
    CASE v.t = "str" -> v.s
      [] v.t = "int" -> IntToStr(v.i)
      [] OTHER -> ""

\* dict.get(key, default)
DictGet(d, key, default) == IF key \in DOMAIN d THEN d[key] ELSE default

----------------------------------------------------------------------------
(* The canonical schema.                                                   *)

INDEX_FIELDS ==
    << "lab", "case", "tags", "iters", "warmup", "pin_cpu", "noise_mode",
       "noise_cpu", "unit", "min", "p50", "p95", "p99", "p999", "max", "mean",
       "run_dir", "summary_path", "meta_path", "stdout_path", "raw_csv_path",
       "raw_llr_path", "raw_unit", "bench_path", "bench_args", "started_at" >>

INDEX_KEY_FIELDS ==
    << "lab", "case", "tags", "iters", "warmup", "pin_cpu", "noise_mode",
       "noise_cpu", "bench_args" >>

----------------------------------------------------------------------------
(* The file, and the csv module's reading and writing of it.               *)

NoFile == [exists |-> FALSE, lines |-> << >>]
File(lines) == [exists |-> TRUE, lines |-> lines]

\* csv.DictReader.__next__: dict(zip(fieldnames, row)); a later duplicate
\* column wins, a column the record is too short for gets restval None.
\* (Fields beyond the header go under the key None, which no writer and no
\* key lookup ever reads.)
DictRow(fieldnames, line) ==
    [ c \in Range(fieldnames) |->
        LET k == CHOOSE j \in 1..Len(fieldnames) :
                    /\ fieldnames[j] = c
                    /\ \A m \in (j + 1)..Len(fieldnames) : fieldnames[m] # c
        IN  IF k <= Len(line) THEN S(line[k]) ELSE None ]

\* csv.DictReader over the whole file: (fieldnames, rows); empty records
\* are skipped.
DictReaderFields(f) == IF Len(f.lines) = 0 THEN << >> ELSE f.lines[1]

RECURSIVE DictReaderRowsFrom(_, _, _)
DictReaderRowsFrom(fieldnames, lines, k) ==
    IF k > Len(lines) THEN << >>
    ELSE IF lines[k] = << >> THEN DictReaderRowsFrom(fieldnames, lines, k + 1)
    ELSE <<DictRow(fieldnames, lines[k])>>
            \o DictReaderRowsFrom(fieldnames, lines, k + 1)

DictReaderRows(f) == DictReaderRowsFrom(DictReaderFields(f), f.lines, 2)

\* csv.DictWriter(fieldnames, extrasaction="ignore")._dict_to_list followed
\* by the writer's conversion of each value to text.
DictToLine(fieldnames, row) ==
    [ k \in 1..Len(fieldnames) |-> CsvField(DictGet(row, fieldnames[k], S(""))) ]

\* path.open("w"): the file exists and is empty.
OpenTruncate == File(<< >>)

\* path.open("a"): the file is created when missing, its content kept.
OpenAppend(f) == File(f.lines)

\* DictWriter.writeheader
WriteHeader(f, fieldnames) == File(Append(f.lines, fieldnames))

\* DictWriter.writerow
WriteRow(f, fieldnames, row) == File(Append(f.lines, DictToLine(fieldnames, row)))

\* DictWriter.writerows
RECURSIVE WriteRowsFrom(_, _, _, _)
WriteRowsFrom(f, fieldnames, rows, k) ==
    IF k > Len(rows) THEN f
    ELSE WriteRowsFrom(WriteRow(f, fieldnames, rows[k]), fieldnames, rows, k + 1)

WriteRows(f, fieldnames, rows) == WriteRowsFrom(f, fieldnames, rows, 1)

----------------------------------------------------------------------------
(* run_bench.py: the index store.                                          *)

\* (mutant) the canonical columns first, the file's other columns after them.
_merge_index_fields_CanonicalFirst(fields) ==
    INDEX_FIELDS \o SelectSeq(fields, LAMBDA c : c \notin Range(INDEX_FIELDS))

RECURSIVE MergeFrom(_, _)
MergeFrom(merged, k) ==
    IF k > Len(INDEX_FIELDS) THEN merged
    ELSE IF INDEX_FIELDS[k] \in Range(merged) THEN MergeFrom(merged, k + 1)
    ELSE MergeFrom(Append(merged, INDEX_FIELDS[k]), k + 1)

_merge_index_fields(fields) == MergeFrom(fields, 1)

\* (mutant) the migration rewrite writes the merged header and no rows.
_ensure_index_fields_HeaderOnly(f) ==
    IF ~f.exists \/ Len(f.lines) = 0 THEN [fields |-> INDEX_FIELDS, file |-> f]
    ELSE IF SelectSeq(INDEX_FIELDS, LAMBDA c : c \notin Range(f.lines[1])) = << >>
         THEN [fields |-> f.lines[1], file |-> f]
    ELSE [fields |-> MergeFrom(f.lines[1], 1),
          file |-> WriteHeader(OpenTruncate, MergeFrom(f.lines[1], 1))]

\* _ensure_index_fields: the fields to write with, and the file as the call
\* leaves it (rewritten under the merged header when canonical columns are
\* missing from a non-empty header).
_ensure_index_fields(f) ==
    IF ~f.exists THEN [fields |-> INDEX_FIELDS, file |-> f]
    ELSE
      LET existing == IF Len(f.lines) = 0 THEN << >> ELSE f.lines[1]
          missing == SelectSeq(INDEX_FIELDS, LAMBDA c : c \notin Range(existing))
      IN  IF existing = << >> THEN [fields |-> INDEX_FIELDS, file |-> f]
          ELSE IF missing = << >> THEN [fields |-> existing, file |-> f]
          ELSE
            LET rows == DictReaderRows(f)
                merged == _merge_index_fields(DictReaderFields(f))
            IN  [fields |-> merged,
                 file |-> WriteRows(WriteHeader(OpenTruncate, merged), merged, rows)]

\* (mutant) the header is wanted only when the file is missing, not when it
\* is empty.
append_index_csv_NoSizeCheck(f, row) ==
    LET e == _ensure_index_fields(f)
        opened == OpenAppend(e.file)
        headed == IF ~e.file.exists THEN WriteHeader(opened, e.fields) ELSE opened
    IN  WriteRow(headed, e.fields, row)

\* (mutant) the row is written with the canonical columns, whatever the
\* schema on disk.
append_index_csv_CanonicalFields(f, row) ==
    LET e == _ensure_index_fields(f)
        needs_header == ~e.file.exists \/ Len(e.file.lines) = 0
        opened == OpenAppend(e.file)
        headed == IF needs_header THEN WriteHeader(opened, INDEX_FIELDS) ELSE opened
    IN  WriteRow(headed, INDEX_FIELDS, row)

\* (mutant) the header is written with the columns of the row added to it.
append_index_csv_RowColumns(f, row) ==
    LET e == _ensure_index_fields(f)
        needs_header == ~e.file.exists \/ Len(e.file.lines) = 0
        opened == OpenAppend(e.file)
        extra == SelectSeq(<<"comment", "note">>,
                           LAMBDA c : c \in DOMAIN row /\ c \notin Range(e.fields))
        fields == IF needs_header THEN e.fields \o extra ELSE e.fields
        headed == IF needs_header THEN WriteHeader(opened, fields) ELSE opened
    IN  WriteRow(headed, fields, row)

append_index_csv(f, row) ==
    LET e == _ensure_index_fields(f)
        needs_header == ~e.file.exists \/ Len(e.file.lines) = 0
        opened == OpenAppend(e.file)
        headed == IF needs_header THEN WriteHeader(opened, e.fields) ELSE opened
    IN  WriteRow(headed, e.fields, row)

\* _read_index_rows: (fields, rows)
_read_index_rows(f) ==
    IF ~f.exists THEN [fields |-> INDEX_FIELDS, rows |-> << >>]
    ELSE [fields |-> IF DictReaderFields(f) = << >> THEN INDEX_FIELDS
                     ELSE DictReaderFields(f),
          rows |-> DictReaderRows(f)]

\* (mutant) the key holds the values as they are, an integer staying one.
_index_key_Typed(row) ==
    [ k \in 1..Len(INDEX_KEY_FIELDS) |-> DictGet(row, INDEX_KEY_FIELDS[k], S("")) ]

_index_key(row) ==
    [ k \in 1..Len(INDEX_KEY_FIELDS) |-> PyStr(DictGet(row, INDEX_KEY_FIELDS[k], S(""))) ]

\* (mutant) the incoming row is put before the surviving rows.
ReplaceFiltered_RowFirst(rows, row) ==
    <<row>> \o SelectSeq(rows, LAMBDA existing : _index_key(existing) # _index_key(row))

\* (mutant) no stored row is discarded.
ReplaceFiltered_KeepAll(rows, row) == Append(rows, row)

\* The rows update_index_csv writes back in replace mode.
ReplaceFiltered(rows, row) ==
    Append(SelectSeq(rows, LAMBDA existing : _index_key(existing) # _index_key(row)), row)

\* A skip that makes sure the index file exists (a "touch").
update_index_csv_SkipTouches(f, row, mode) ==
    IF mode = "skip" THEN (IF f.exists THEN f ELSE File(<< >>))
    ELSE IF mode = "append" THEN append_index_csv(f, row)
    ELSE WriteRows(WriteHeader(OpenTruncate, _merge_index_fields(_read_index_rows(f).fields)),
                   _merge_index_fields(_read_index_rows(f).fields),
                   ReplaceFiltered(_read_index_rows(f).rows, row))

update_index_csv(f, row, mode) ==
    IF mode = "skip" THEN f
    ELSE IF mode = "append" THEN append_index_csv(f, row)
    ELSE
      LET r == _read_index_rows(f)
          fields == _merge_index_fields(r.fields)
          filtered == ReplaceFiltered(r.rows, row)
      IN  WriteRows(WriteHeader(OpenTruncate, fields), fields, filtered)

----------------------------------------------------------------------------
(* The rows written and the files found.                                   *)

\* The row main() builds for a run: integers where main passes integers.
RowA ==
    [ lab |-> S("os"), case |-> S("noop"), tags |-> S("[]"), iters |-> I(10),
      warmup |-> I(0), pin_cpu |-> I(-1), noise_mode |-> S("off"),
      noise_cpu |-> I(-1), unit |-> S("ns"), min |-> I(1), p50 |-> I(2),
      p95 |-> I(3), p99 |-> I(4), p999 |-> I(5), max |-> I(6),
      mean |-> S("3.500000"), run_dir |-> S("results/os/noop/r1"),
      summary_path |-> S("results/os/noop/r1/summary.csv"),
      meta_path |-> S("results/os/noop/r1/meta.json"),
      stdout_path |-> S("results/os/noop/r1/stdout.txt"),
      raw_csv_path |-> S("results/os/noop/r1/raw.csv"),
      raw_llr_path |-> S("results/os/noop/r1/raw.llr.xz"),
      raw_unit |-> S("ns"), bench_path |-> S("build/bench"),
      bench_args |-> S("[]"), started_at |-> S("2024-01-01T00:00:00") ]

\* A later run of the same configuration: the same identity key.
RowA2 ==
    [ RowA EXCEPT !.min = I(7), !.max = I(12), !.run_dir = S("results/os/noop/r2"),
                  !.started_at = S("2024-01-02T00:00:00") ]

\* A run of another case: a different identity key.
RowB == [ RowA EXCEPT !.case = S("spin"), !.run_dir = S("results/os/spin/r1") ]

\* The row of test_append_index_csv: no noise_mode and no noise_cpu, with a
\* field that is no column of any schema.
RowT ==
    [ c \in (DOMAIN RowA \ {"noise_mode", "noise_cpu"}) \cup {"comment"} |->
        IF c = "comment" THEN S("first") ELSE RowA[c] ]

Rows == { RowA, RowA2, RowB, RowT }

\* The schema of an older version: no noise and no LLR columns.
OldFields ==
    SelectSeq(INDEX_FIELDS,
              LAMBDA c : c \notin {"noise_mode", "noise_cpu", "raw_llr_path", "raw_unit"})

\* A file an older version left: two runs of one configuration, appended.
OldFile ==
    File(<< OldFields, DictToLine(OldFields, RowA), DictToLine(OldFields, RowA2) >>)

\* A file whose schema has a trailing column this version does not know.
NoteFields == Append(INDEX_FIELDS, "note")

NoteFile ==
    File(<< NoteFields, DictToLine(NoteFields, RowB @@ [note |-> S("kept")]) >>)

StartFiles == { NoFile, File(<< >>), OldFile, NoteFile }

----------------------------------------------------------------------------
(* The index store, one write call per step.                               *)

\* The processes that may run a write call.
\* The container as the encoder left it.
NoDamage == [kind |-> "none"]

\* No run of main() is under way.
NoRun == [pc |-> "none"]

\* A run directory without raw.csv.
NoCsv == [exists |-> FALSE, lines |-> << >>]

Writers == {1, 2}

Idle == [pc |-> "idle"]

Init ==
    /\ index \in StartFiles
    /\ start = index
    /\ before = index
    /\ hist = << >>
    /\ wr = [p \in Writers |-> Idle]
    /\ inp = [samples |-> << >>, unit |-> "ns"]
    /\ llr = [exists |-> FALSE, bytes |-> << >>]
    /\ cut = 0
    /\ enc = [pc |-> "none"]
    /\ dec = [pc |-> "none"]
    /\ it = [pc |-> "none"]
    /\ bad = NoDamage
    /\ csv = NoCsv
    /\ ld = [pc |-> "none"]
    /\ run = NoRun

Write(mode, row) ==
    /\ Len(hist) < MaxWrites
    /\ before' = index
    /\ index' = update_index_csv(index, row, mode)
    /\ hist' = Append(hist, [mode |-> mode, row |-> row])
    /\ UNCHANGED <<start, wr, cvars>>

AppendWrite == \E row \in Rows : Write("append", row)

SkipWrite == \E row \in Rows : Write("skip", row)

ReplaceWrite == \E row \in Rows : Write("replace", row)

Next == AppendWrite \/ SkipWrite \/ ReplaceWrite

Spec == Init /\ [][Next]_vars

----------------------------------------------------------------------------
(* Reading the file as a table, for stating the claims: the header, the    *)
(* data records by number, and the text of a cell under a named column.    *)

HeaderOf(f) == IF Len(f.lines) = 0 THEN << >> ELSE f.lines[1]

NumRows(f) == IF Len(f.lines) = 0 THEN 0 ELSE Len(f.lines) - 1

ColPos(h, c) == CHOOSE k \in 1..Len(h) : h[k] = c

\* The text stored in data record r under column c; empty when the file has
\* no such column.
Cell(f, r, c) ==
    IF c \in Range(HeaderOf(f)) THEN f.lines[r + 1][ColPos(HeaderOf(f), c)] ELSE ""

\* The identity key of data record r.
StoredKey(f, r) == [ k \in 1..Len(INDEX_KEY_FIELDS) |-> Cell(f, r, INDEX_KEY_FIELDS[k]) ]

\* The text of a written row's field, empty when the row has no such field.
RowText(row, c) == IF c \in DOMAIN row THEN CsvField(row[c]) ELSE ""

RowKey(row) == [ k \in 1..Len(INDEX_KEY_FIELDS) |-> RowText(row, INDEX_KEY_FIELDS[k]) ]

RowsWithKey(f, key) == { r \in 1..NumRows(f) : StoredKey(f, r) = key }

IsPrefix(s, t) == Len(s) <= Len(t) /\ SubSeq(t, 1, Len(s)) = s

\* The canonical columns a header lacks, in canonical order.
MissingFrom(h) == SelectSeq(INDEX_FIELDS, LAMBDA c : c \notin Range(h))

Wrote == Len(hist) > 0

Last == hist[Len(hist)]

\* The numbers of the data records of `before` that a write of `row` in
\* `mode` keeps, in order.
KeptRows(mode, row) ==
    SelectSeq([ r \in 1..NumRows(before) |-> r ],
              LAMBDA r : mode # "replace" \/ StoredKey(before, r) # RowKey(row))

----------------------------------------------------------------------------
(* C2: a replace write leaves exactly the stored rows whose key differs    *)
(* from the incoming row's, in their order and with their values, then the *)
(* incoming row last; exactly one row carries the incoming key; on a       *)
(* missing file it creates the file with the canonical header and the row. *)

C2_ReplaceResult ==
    (Wrote /\ Last.mode = "replace") =>
        LET kept == KeptRows("replace", Last.row)
            n == Len(kept) + 1
        IN  /\ index.exists
            /\ NumRows(index) = n
            /\ \A j \in 1..Len(kept) : \A c \in Range(HeaderOf(index)) :
                   Cell(index, j, c) = Cell(before, kept[j], c)
            /\ \A c \in Range(HeaderOf(index)) : Cell(index, n, c) = RowText(Last.row, c)
            /\ Cardinality(RowsWithKey(index, RowKey(Last.row))) = 1
            /\ (~before.exists => index.lines =
                   << INDEX_FIELDS,
                      [ k \in 1..Len(INDEX_FIELDS) |-> RowText(Last.row, INDEX_FIELDS[k]) ] >>)

\* A replace write that found several rows with the incoming key.
C2_Witness ==
    /\ Wrote /\ Last.mode = "replace"
    /\ Cardinality(RowsWithKey(before, RowKey(Last.row))) >= 2
    /\ \E r \in 1..NumRows(before) : StoredKey(before, r) # RowKey(Last.row)

----------------------------------------------------------------------------
(* C3 as stated: after every replace write, whatever writes preceded it,   *)
(* no identity key has more than one row.                                  *)

C3_AllKeysUnique ==
    (Wrote /\ Last.mode = "replace") =>
        \A r1, r2 \in 1..NumRows(index) :
            StoredKey(index, r1) = StoredKey(index, r2) => r1 = r2

(* C3 amended: after every replace write the written row's key has at most *)
(* one row; every other key has exactly the rows it had before the write,  *)
(* so a key that earlier appends duplicated stays duplicated.              *)

C3_IncomingKeyUnique ==
    (Wrote /\ Last.mode = "replace") =>
        /\ Cardinality(RowsWithKey(index, RowKey(Last.row))) <= 1
        /\ \A r \in 1..NumRows(before) :
              StoredKey(before, r) # RowKey(Last.row) =>
                  Cardinality(RowsWithKey(index, StoredKey(before, r)))
                      = Cardinality(RowsWithKey(before, StoredKey(before, r)))

\* A replace write after which another key still has two rows.
C3_Witness ==
    /\ Wrote /\ Last.mode = "replace"
    /\ \E r1, r2 \in 1..NumRows(index) :
          /\ r1 # r2
          /\ StoredKey(index, r1) = StoredKey(index, r2)
          /\ StoredKey(index, r1) # RowKey(Last.row)

----------------------------------------------------------------------------
(* C5 as stated: an append or replace write against a file whose header    *)
(* lacks canonical columns rewrites it under the union schema and every    *)
(* stored row keeps its values and gets empty values in the added columns. *)

OlderSchema(f) == f.exists /\ HeaderOf(f) # << >> /\ MissingFrom(HeaderOf(f)) # << >>

C5_NoStoredRowLost ==
    (Wrote /\ Last.mode \in {"append", "replace"} /\ OlderSchema(before)) =>
        /\ HeaderOf(index) = HeaderOf(before) \o MissingFrom(HeaderOf(before))
        /\ NumRows(index) >= NumRows(before)
        /\ \A r \in 1..NumRows(before) : \A c \in Range(HeaderOf(index)) :
              Cell(index, r, c) = Cell(before, r, c)

(* C5 amended: ... every stored row that the write keeps (all of them in    *)
(* append mode; in replace mode those whose key differs from the incoming  *)
(* row's) keeps its values under its columns and gets empty values in the  *)
(* added columns.                                                          *)

C5_MigrationKeepsRows ==
    (Wrote /\ Last.mode \in {"append", "replace"} /\ OlderSchema(before)) =>
        LET kept == KeptRows(Last.mode, Last.row)
        IN  /\ HeaderOf(index) = HeaderOf(before) \o MissingFrom(HeaderOf(before))
            /\ NumRows(index) = Len(kept) + 1
            /\ \A j \in 1..Len(kept) :
                  /\ \A c \in Range(HeaderOf(before)) :
                        Cell(index, j, c) = Cell(before, kept[j], c)
                  /\ \A c \in Range(MissingFrom(HeaderOf(before))) : Cell(index, j, c) = ""

\* An append to an older file with stored rows, which got new columns.
C5_Witness ==
    /\ Wrote /\ Last.mode = "append" /\ OlderSchema(before)
    /\ NumRows(before) >= 2
    /\ Len(HeaderOf(index)) > Len(HeaderOf(before))

----------------------------------------------------------------------------
(* C6: the header before a write is a prefix of the header after it, and   *)
(* the columns a write adds come at the end in canonical order.            *)

C6_SchemaGrowsAtEnd ==
    Wrote =>
        LET h0 == HeaderOf(before)
            h1 == HeaderOf(index)
            added == SubSeq(h1, Len(h0) + 1, Len(h1))
        IN  /\ IsPrefix(h0, h1)
            /\ \A k \in 1..Len(added) :
                  /\ added[k] \in Range(INDEX_FIELDS) \ Range(h0)
                  /\ \A m \in 1..(k - 1) :
                        ColPos(INDEX_FIELDS, added[m]) < ColPos(INDEX_FIELDS, added[k])

\* A write that added columns to a header that was not a prefix of the
\* canonical list.
C6_Witness ==
    /\ Wrote
    /\ HeaderOf(before) # << >>
    /\ Len(HeaderOf(index)) > Len(HeaderOf(before))
    /\ ~IsPrefix(HeaderOf(before), INDEX_FIELDS)

----------------------------------------------------------------------------
(* C8: from a missing or empty file, n >= 1 append writes leave one header *)
(* line and then the n rows in write order.                                *)

OnlyAppends == \A k \in 1..Len(hist) : hist[k].mode = "append"

FreshStart == ~start.exists \/ start.lines = << >>

C8_AppendsOneHeader ==
    (Wrote /\ FreshStart /\ OnlyAppends) =>
        /\ Len(index.lines) = Len(hist) + 1
        /\ index.lines[1] = INDEX_FIELDS
        /\ \A k \in 1..Len(hist) :
              /\ index.lines[k + 1] # INDEX_FIELDS
              /\ \A c \in Range(INDEX_FIELDS) : Cell(index, k, c) = RowText(hist[k].row, c)

\* Three appends, starting from an empty file that existed.
C8_Witness ==
    /\ Len(hist) >= 3 /\ OnlyAppends
    /\ start.exists /\ start.lines = << >>
    /\ hist[1].row # hist[2].row

----------------------------------------------------------------------------
(* C9 as stated: an append to an existing non-empty file leaves the header *)
(* line as it was and writes the row under it.                             *)

C9_HeaderLeftAsWas ==
    (Wrote /\ Last.mode = "append" /\ before.exists /\ before.lines # << >>) =>
        /\ HeaderOf(index) = HeaderOf(before)
        /\ NumRows(index) = NumRows(before) + 1
        /\ \A c \in Range(HeaderOf(before)) :
              Cell(index, NumRows(index), c) = RowText(Last.row, c)

(* C9 amended: an append to an existing non-empty file serialises the row  *)
(* against the schema on disk extended by the canonical columns it lacks:  *)
(* when the header has every canonical column the file is left as it was   *)
(* and the row added; otherwise the header is extended first. Each schema  *)
(* column the row lacks is written empty, other row fields are dropped.    *)

C9_AppendUnderDiskSchema ==
    (Wrote /\ Last.mode = "append" /\ before.exists /\ before.lines # << >>) =>
        LET h == HeaderOf(before) \o MissingFrom(HeaderOf(before))
        IN  /\ HeaderOf(index) = h
            /\ NumRows(index) = NumRows(before) + 1
            /\ index.lines[Len(index.lines)] = [ k \in 1..Len(h) |-> RowText(Last.row, h[k]) ]
            /\ (MissingFrom(HeaderOf(before)) = << >> =>
                   SubSeq(index.lines, 1, Len(before.lines)) = before.lines)

\* An append of a row with an unknown field and without some schema columns
\* to a file whose header has a column beyond the canonical ones.
C9_Witness ==
    /\ Wrote /\ Last.mode = "append" /\ before.exists /\ before.lines # << >>
    /\ MissingFrom(HeaderOf(before)) = << >>
    /\ Range(HeaderOf(before)) \ DOMAIN Last.row # {}
    /\ DOMAIN Last.row \ Range(HeaderOf(before)) # {}

----------------------------------------------------------------------------
(* C10 as stated: an append to a missing or empty file writes a header of  *)
(* the canonical columns merged with the columns the row introduces.       *)

C10_HeaderHasRowColumns ==
    (Wrote /\ Last.mode = "append" /\ (~before.exists \/ before.lines = << >>)) =>
        /\ IsPrefix(INDEX_FIELDS, HeaderOf(index))
        /\ Range(HeaderOf(index)) = Range(INDEX_FIELDS) \cup DOMAIN Last.row

(* C10 amended: an append to a missing or empty file first writes a header *)
(* of exactly the canonical default columns, and then the row under that   *)
(* header; fields of the row that are not canonical columns are dropped.   *)

C10_CanonicalHeaderThenRow ==
    (Wrote /\ Last.mode = "append" /\ (~before.exists \/ before.lines = << >>)) =>
        index = File(<< INDEX_FIELDS,
                        [ k \in 1..Len(INDEX_FIELDS) |-> RowText(Last.row, INDEX_FIELDS[k]) ] >>)

\* An append to an empty file of a row with a field that is no canonical column.
C10_Witness ==
    /\ Wrote /\ Last.mode = "append"
    /\ before.exists /\ before.lines = << >>
    /\ DOMAIN Last.row \ Range(INDEX_FIELDS) # {}

----------------------------------------------------------------------------
(* The index store, one file operation per step: what a write call does    *)
(* to the file between its beginning and its end. A call in progress is    *)
(*   [pc, mode, row, before, fields, rows, k]                              *)
(* with `before` the file as the call found it, `fields` and `rows` what   *)
(* it holds in memory and k the next of `rows` to write.                   *)

Call(p, pc, fields, rows) ==
    [wr EXCEPT ![p] = [pc |-> pc, mode |-> wr[p].mode, row |-> wr[p].row,
                       before |-> wr[p].before, fields |-> fields,
                       rows |-> rows, k |-> 1]]

At(p, pc) == wr[p].pc = pc

Goto(p, pc) == wr' = [wr EXCEPT ![p].pc = pc]

\* update_index_csv is called: skip returns at once, append goes to
\* append_index_csv, replace reads on.
Begin(p, mode, row) ==
    /\ wr[p].pc \in {"idle", "done"}
    /\ Len(hist) < MaxWrites
    /\ hist' = Append(hist, [mode |-> mode, row |-> row])
    /\ before' = index
    /\ wr' = [wr EXCEPT ![p] =
                [pc |-> CASE mode = "skip" -> "done"
                          [] mode = "append" -> "ensure"
                          [] OTHER -> "read",
                 mode |-> mode, row |-> row, before |-> index,
                 fields |-> << >>, rows |-> << >>, k |-> 1]]
    /\ UNCHANGED <<index, start, cvars>>

BeginCall(p) == \E mode \in {"append", "skip", "replace"} : \E row \in Rows : Begin(p, mode, row)

\* replace: the file is read, the schema merged, the rows filtered.
ReplaceRead(p) ==
    /\ At(p, "read")
    /\ LET r == _read_index_rows(index)
       IN  wr' = Call(p, "r_open", _merge_index_fields(r.fields),
                      ReplaceFiltered(r.rows, wr[p].row))
    /\ UNCHANGED <<index, before, start, hist, cvars>>

\* replace: path.open("w")
ReplaceOpen(p) ==
    /\ At(p, "r_open")
    /\ index' = OpenTruncate
    /\ Goto(p, "r_header")
    /\ UNCHANGED <<before, start, hist, cvars>>

\* replace: writer.writeheader()
ReplaceHeader(p) ==
    /\ At(p, "r_header")
    /\ index' = WriteHeader(index, wr[p].fields)
    /\ Goto(p, "r_rows")
    /\ UNCHANGED <<before, start, hist, cvars>>

\* replace: writer.writerows(filtered), one row at a time, then the close.
ReplaceRows(p) ==
    /\ At(p, "r_rows")
    /\ IF wr[p].k <= Len(wr[p].rows)
       THEN /\ index' = WriteRow(index, wr[p].fields, wr[p].rows[wr[p].k])
            /\ wr' = [wr EXCEPT ![p].k = @ + 1]
       ELSE /\ index' = index
            /\ Goto(p, "done")
    /\ UNCHANGED <<before, start, hist, cvars>>

\* append: _ensure_index_fields reads the header, and the rows when
\* canonical columns are missing.
EnsureRead(p) ==
    /\ At(p, "ensure")
    /\ LET existing == DictReaderFields(index)
       IN  IF ~index.exists \/ existing = << >>
           THEN wr' = Call(p, "a_open", INDEX_FIELDS, << >>)
           ELSE IF SelectSeq(INDEX_FIELDS, LAMBDA c : c \notin Range(existing)) = << >>
           THEN wr' = Call(p, "a_open", existing, << >>)
           ELSE wr' = Call(p, "e_open", _merge_index_fields(existing), DictReaderRows(index))
    /\ UNCHANGED <<index, before, start, hist, cvars>>

\* _ensure_index_fields: path.open("w")
EnsureOpen(p) ==
    /\ At(p, "e_open")
    /\ index' = OpenTruncate
    /\ Goto(p, "e_header")
    /\ UNCHANGED <<before, start, hist, cvars>>

\* _ensure_index_fields: writer.writeheader()
EnsureHeader(p) ==
    /\ At(p, "e_header")
    /\ index' = WriteHeader(index, wr[p].fields)
    /\ Goto(p, "e_rows")
    /\ UNCHANGED <<before, start, hist, cvars>>

\* _ensure_index_fields: writer.writerows(rows), then the close and return.
EnsureRows(p) ==
    /\ At(p, "e_rows")
    /\ IF wr[p].k <= Len(wr[p].rows)
       THEN /\ index' = WriteRow(index, wr[p].fields, wr[p].rows[wr[p].k])
            /\ wr' = [wr EXCEPT ![p].k = @ + 1]
       ELSE /\ index' = index
            /\ Goto(p, "a_open")
    /\ UNCHANGED <<before, start, hist, cvars>>

\* append: needs_header is decided, then path.open("a").
AppendOpen(p) ==
    /\ At(p, "a_open")
    /\ index' = OpenAppend(index)
    /\ Goto(p, IF ~index.exists \/ Len(index.lines) = 0 THEN "a_header" ELSE "a_row")
    /\ UNCHANGED <<before, start, hist, cvars>>

\* append: writer.writeheader()
AppendHeader(p) ==
    /\ At(p, "a_header")
    /\ index' = WriteHeader(index, wr[p].fields)
    /\ Goto(p, "a_row")
    /\ UNCHANGED <<before, start, hist, cvars>>

\* append: writer.writerow(row), then the close.
AppendRow(p) ==
    /\ At(p, "a_row")
    /\ index' = WriteRow(index, wr[p].fields, wr[p].row)
    /\ Goto(p, "done")
    /\ UNCHANGED <<before, start, hist, cvars>>

\* The call does not complete: an exception from a file operation (a full
\* disk, an I/O error) or the process being interrupted or killed. Nothing
\* in update_index_csv, append_index_csv or _ensure_index_fields catches
\* anything or restores the file: it stays as the steps so far left it.
Fail(p) ==
    /\ wr[p].pc \notin {"idle", "done", "failed"}
    /\ Goto(p, "failed")
    /\ UNCHANGED <<index, before, start, hist, cvars>>

Step(p) ==
    \/ BeginCall(p)
    \/ ReplaceRead(p) \/ ReplaceOpen(p) \/ ReplaceHeader(p) \/ ReplaceRows(p)
    \/ EnsureRead(p) \/ EnsureOpen(p) \/ EnsureHeader(p) \/ EnsureRows(p)
    \/ AppendOpen(p) \/ AppendHeader(p) \/ AppendRow(p)

\* One process, whose write calls may fail at any step.
NextCrash == Step(1) \/ Fail(1)

SpecCrash == Init /\ [][NextCrash]_vars

\* A call that ran to its end left what update_index_csv computes from the
\* file it found (the steps and the whole call agree).
StepsAgree ==
    \A p \in Writers :
        At(p, "done") => index = update_index_csv(wr[p].before, wr[p].row, wr[p].mode)

----------------------------------------------------------------------------
(* C7: when an append or replace write fails before completing, the index  *)
(* file still holds the content it had when the write began.               *)

C7_FailedWriteLeavesFile ==
    \A p \in Writers :
        (At(p, "failed") /\ NumRows(wr[p].before) > 0) => index = wr[p].before

----------------------------------------------------------------------------
(* raw_format.py: the LLR sample codec.                                    *)
(*                                                                         *)
(* A container is the sequence of its bytes, as lzma hands them to and     *)
(* takes them from the codec (the xz wrapping is the library's lossless    *)
(* transform of that sequence). Text is a sequence of Unicode code points, *)
(* so that UTF-8 encoding and decoding are real conversions.               *)
(*                                                                         *)
(* Deltas are int64 in the code. TLC's integers have 32 bits, so the model *)
(* is checked with deltas of IntBits bits: wherever the code has 63 the    *)
(* model has IntBits - 1, and the varint reader's limit of 70 (7 bits for  *)
(* each of the 10 bytes of a 64-bit value) is 7 * ceil(IntBits / 7).       *)
(* Everything else (7-bit groups, the continuation bit, the header's       *)
(* field widths) is the code's.                                            *)

IntBits == 15

MinDelta == -(2 ^ (IntBits - 1))

MaxDelta == (2 ^ (IntBits - 1)) - 1

MaxShift == 7 * ((IntBits + 6) \div 7)

MAGIC == << 76, 76, 82, 49 >>     \* b"LLR1"

VERSION == 1

UNIT_NAMES == << "ns", "us", "ms", "s" >>

\* UNIT_ENUM[name], for a name of UNIT_NAMES
UNIT_ENUM(name) == (CHOOSE k \in 1..Len(UNIT_NAMES) : UNIT_NAMES[k] = name) - 1

UNIT_SCALE_NS(name) ==
    CASE name = "ns" -> 1
      [] name = "us" -> 1000
      [] name = "ms" -> 1000000
      [] name = "s" -> 1000000000

\* Python's integers have no width and TLC's have 32 bits, below the
\* threshold 10^11 of choose_unit_from_min. A minimum is therefore given as
\* two digits to the base 10^5: min_ns = hi * 10^5 + lo with 0 <= lo < 10^5.
\* hi * 10^5 + lo >= thi * 10^5 + tlo, digit by digit:
WideAtLeast(hi, lo, thi, tlo) == hi > thi \/ (hi = thi /\ lo >= tlo)

\* Thresholds crossed only above them (> where the code has >=).
ChooseUnitWide_Above(hi, lo) ==
    IF WideAtLeast(hi, lo, 1000000, 1) THEN "s"
    ELSE IF WideAtLeast(hi, lo, 1000, 1) THEN "ms"
    ELSE IF WideAtLeast(hi, lo, 1, 1) THEN "us"
    ELSE "ns"

\* choose_unit_from_min on such a minimum: the thresholds 10^11, 10^8 and
\* 10^5 are (10^6, 0), (1000, 0) and (1, 0).
ChooseUnitWide(hi, lo) ==
    IF WideAtLeast(hi, lo, 1000000, 0) THEN "s"
    ELSE IF WideAtLeast(hi, lo, 1000, 0) THEN "ms"
    ELSE IF WideAtLeast(hi, lo, 1, 0) THEN "us"
    ELSE "ns"

\* choose_unit_from_min on a minimum that TLC's integers hold.
choose_unit_from_min(min_ns) == ChooseUnitWide(min_ns \div 100000, min_ns % 100000)

\* a ^ b on Python's integers (two's complement without a width).
RECURSIVE Xor(_, _)
Xor(a, b) ==
    IF a = 0 THEN b
    ELSE IF b = 0 THEN a
    ELSE IF a = -1 THEN -b - 1
    ELSE IF b = -1 THEN -a - 1
    ELSE ((a + b) % 2) + 2 * Xor(a \div 2, b \div 2)

\* A range check that is off by one at both ends.
ZigzagInRange_Wide(value) == value >= MinDelta - 1 /\ value <= MaxDelta + 1

ZigzagInRange(value) == value >= MinDelta /\ value <= MaxDelta

\* _zigzag_encode, for a value in range: (value << 1) ^ (value >> 63)
_zigzag_encode(value) == Xor(value * 2, value \div (2 ^ (IntBits - 1)))

\* A decoder that drops the sign bit instead of folding it back in.
_zigzag_decode_Unsigned(value) == value \div 2

\* _zigzag_decode: (value >> 1) ^ -(value & 1)
_zigzag_decode(value) == Xor(value \div 2, -(value % 2))

\* (mutant) no byte carries the continuation bit.
RECURSIVE _write_varint_NoFlag(_)
_write_varint_NoFlag(value) ==
    LET chunk == value % 128
        rest == value \div 128
    IN  IF rest # 0 THEN <<chunk>> \o _write_varint_NoFlag(rest) ELSE <<chunk>>

\* _write_varint: the bytes appended to the buffer for value >= 0.
RECURSIVE _write_varint(_)
_write_varint(value) ==
    LET chunk == value % 128
        rest == value \div 128
    IN  IF rest # 0 THEN <<chunk + 128>> \o _write_varint(rest) ELSE <<chunk>>

\* _read_varint: [ok, value, offset], offsets counted from 0 as in the code.
\* The groups are OR-ed in at disjoint bit positions, which is addition.
RECURSIVE ReadVarintFrom(_, _, _, _)
ReadVarintFrom(data, offset, value, shift) ==
    IF offset >= Len(data) THEN [ok |-> FALSE, err |-> "truncated varint",
                                 value |-> 0, offset |-> offset]
    ELSE
      LET byte == data[offset + 1]
          v == value + (byte % 128) * (2 ^ shift)
      IN  IF byte < 128 THEN [ok |-> TRUE, err |-> "", value |-> v, offset |-> offset + 1]
          ELSE IF shift + 7 > MaxShift
               THEN [ok |-> FALSE, err |-> "varint too large", value |-> 0,
                     offset |-> offset + 1]
          ELSE ReadVarintFrom(data, offset + 1, v, shift + 7)

_read_varint(data, offset) == ReadVarintFrom(data, offset, 0, 0)

----------------------------------------------------------------------------
(* struct.pack / struct.unpack and UTF-8.                                  *)

\* The w little-endian bytes of n (two's complement for n < 0).
RECURSIVE PackLE(_, _)
PackLE(n, w) == IF w = 0 THEN << >> ELSE <<n % 256>> \o PackLE(n \div 256, w - 1)

\* The unsigned value of little-endian bytes.
RECURSIVE UnpackLE(_)
UnpackLE(b) == IF Len(b) = 0 THEN 0 ELSE b[1] + 256 * UnpackLE(Tail(b))

\* struct "<i": the signed value of 4 little-endian bytes.
UnpackInt32(b) ==
    b[1] + 256 * b[2] + 65536 * b[3] + 16777216 * (IF b[4] >= 128 THEN b[4] - 256 ELSE b[4])

\* str.encode("utf-8")
RECURSIVE Utf8Encode(_)
Utf8Encode(text) ==
    IF Len(text) = 0 THEN << >>
    ELSE LET c == text[1]
             head == IF c < 128 THEN <<c>>
                     ELSE IF c < 2048 THEN <<192 + (c \div 64), 128 + (c % 64)>>
                     ELSE <<224 + (c \div 4096), 128 + ((c \div 64) % 64), 128 + (c % 64)>>
         IN  head \o Utf8Encode(Tail(text))

\* bytes.decode("utf-8") of well-formed UTF-8 of code points below 65536;
\* anything else is a UnicodeDecodeError, the result <<-1>>.
RECURSIVE Utf8Decode(_)
Utf8Decode(b) ==
    IF Len(b) = 0 THEN << >>
    ELSE LET cont(k) == k <= Len(b) /\ b[k] >= 128 /\ b[k] < 192
             one == b[1] < 128
             two == b[1] >= 194 /\ b[1] < 224 /\ cont(2)
             three == b[1] >= 224 /\ b[1] < 240 /\ cont(2) /\ cont(3)
             n == IF one THEN 1 ELSE IF two THEN 2 ELSE 3
             c == IF one THEN b[1]
                  ELSE IF two THEN (b[1] - 192) * 64 + (b[2] - 128)
                  ELSE (b[1] - 224) * 4096 + (b[2] - 128) * 64 + (b[3] - 128)
         IN  IF ~(one \/ two \/ three) THEN <<-1>>
             ELSE LET rest == Utf8Decode(SubSeq(b, n + 1, Len(b)))
                  IN  IF rest = <<-1>> THEN <<-1>> ELSE <<c>> \o rest

\* A length-prefixed string: struct.pack("<I", len(b)) and the bytes.
PackString(text) == PackLE(Len(Utf8Encode(text)), 4) \o Utf8Encode(text)

RECURSIVE PackStrings(_)
PackStrings(texts) ==
    IF Len(texts) = 0 THEN << >> ELSE PackString(texts[1]) \o PackStrings(Tail(texts))

\* _write_header: the bytes written for a header.
_write_header(header) ==
    MAGIC
    \o <<VERSION, UNIT_ENUM(header.unit)>> \o PackLE(0, 2)
    \o PackLE(header.sample_count, 8) \o PackLE(header.iters, 8)
    \o PackLE(header.warmup, 8) \o PackLE(header.pin_cpu, 4)
    \o PackLE(Len(header.tags), 4)
    \o PackString(header.case_name)
    \o PackStrings(header.tags)
    \o PackLE(Len(header.args), 4) \o PackStrings(header.args)

----------------------------------------------------------------------------
(* Reading a header back.                                                  *)

NoHeader ==
    [ case_name |-> << >>, tags |-> << >>, args |-> << >>, iters |-> 0,
      warmup |-> 0, pin_cpu |-> 0, unit |-> "", sample_count |-> 0 ]

\* handle.read(n) at position pos: at most n bytes, fewer at the end.
ReadN(data, pos, n) ==
    SubSeq(data, pos + 1, IF pos + n > Len(data) THEN Len(data) ELSE pos + n)

StringsFail(e) == [ok |-> FALSE, err |-> e, items |-> << >>, pos |-> 0]

\* The loops of _read_header over the tags and over the args: count
\* length-prefixed strings from pos, giving [ok, err, items, pos].
RECURSIVE ReadStrings(_, _, _, _, _)
\* The rest of the loop after one string.
ReadStringRest(text, rest) ==
    IF rest.ok THEN [rest EXCEPT !.items = <<text>> \o @] ELSE rest

\* One string's bytes read and decoded.
ReadStringBody(data, pos, count, lenErr, bodyErr, n, body) ==
    IF Len(body) # n THEN StringsFail(bodyErr)
    ELSE IF Utf8Decode(body) = <<-1>> THEN StringsFail("UnicodeDecodeError")
    ELSE ReadStringRest(Utf8Decode(body),
                        ReadStrings(data, pos + 4 + n, count - 1, lenErr, bodyErr))

\* One string's length read.
ReadStringLen(data, pos, count, lenErr, bodyErr, len_bytes) ==
    IF Len(len_bytes) # 4 THEN StringsFail(lenErr)
    ELSE ReadStringBody(data, pos, count, lenErr, bodyErr, UnpackLE(len_bytes),
                        ReadN(data, pos + 4, UnpackLE(len_bytes)))

ReadStrings(data, pos, count, lenErr, bodyErr) ==
    IF count = 0 THEN [ok |-> TRUE, err |-> "", items |-> << >>, pos |-> pos]
    ELSE ReadStringLen(data, pos, count, lenErr, bodyErr, ReadN(data, pos, 4))

HeaderFail(e) == [ok |-> FALSE, err |-> e, header |-> NoHeader, pos |-> 0]

\* _read_header, its last part: the RawHeader built from what was read.
ReadHeaderBuild(header_bytes, fixed, case_bytes, tags, args) ==
    IF ~args.ok THEN HeaderFail(args.err)
    ELSE IF Utf8Decode(case_bytes) = <<-1>> THEN HeaderFail("UnicodeDecodeError")
    ELSE [ok |-> TRUE, err |-> "",
          header |-> [ case_name |-> Utf8Decode(case_bytes),
                       tags |-> tags.items,
                       args |-> args.items,
                       iters |-> UnpackLE(SubSeq(fixed, 9, 16)),
                       warmup |-> UnpackLE(SubSeq(fixed, 17, 24)),
                       pin_cpu |-> UnpackInt32(SubSeq(fixed, 25, 28)),
                       unit |-> UNIT_NAMES[header_bytes[2] + 1],
                       sample_count |-> UnpackLE(SubSeq(fixed, 1, 8)) ],
          pos |-> args.pos]

\* _read_header from the arg count on.
ReadHeaderArgs(data, header_bytes, fixed, case_bytes, tags, arg_count_bytes) ==
    IF ~tags.ok THEN HeaderFail(tags.err)
    ELSE IF Len(arg_count_bytes) # 4 THEN HeaderFail("truncated arg count")
    ELSE ReadHeaderBuild(header_bytes, fixed, case_bytes, tags,
                         ReadStrings(data, tags.pos + 4, UnpackLE(arg_count_bytes),
                                     "truncated arg length", "truncated arg"))

\* _read_header from the tags on.
ReadHeaderTags(data, header_bytes, fixed, case_bytes, tags) ==
    ReadHeaderArgs(data, header_bytes, fixed, case_bytes, tags,
                   IF tags.ok THEN ReadN(data, tags.pos, 4) ELSE << >>)

\* _read_header from the case name on.
ReadHeaderCase(data, header_bytes, fixed, case_len, case_bytes) ==
    IF Len(case_bytes) # case_len THEN HeaderFail("truncated case name")
    ELSE ReadHeaderTags(data, header_bytes, fixed, case_bytes,
                        ReadStrings(data, 44 + case_len, UnpackLE(SubSeq(fixed, 29, 32)),
                                    "truncated tag length", "truncated tag"))

\* A reader that does not look at the version and unit bytes' values: any
\* version is taken, and a unit index is folded into the table.
ReadHeaderFixed_AnyVersion(data, magic, header_bytes, fixed, case_len_bytes) ==
    IF magic # MAGIC THEN HeaderFail("invalid raw file magic")
    ELSE IF Len(header_bytes) # 4 THEN HeaderFail("truncated raw header")
    ELSE IF Len(fixed) # 32 THEN HeaderFail("truncated raw header")
    ELSE IF Len(case_len_bytes) # 4 THEN HeaderFail("truncated raw header")
    ELSE ReadHeaderCase(data, [header_bytes EXCEPT ![2] = @ % Len(UNIT_NAMES)], fixed,
                        UnpackLE(case_len_bytes), ReadN(data, 44, UnpackLE(case_len_bytes)))

\* _read_header: the magic, the version and unit bytes, the fixed fields.
ReadHeaderFixed(data, magic, header_bytes, fixed, case_len_bytes) ==
    IF magic # MAGIC THEN HeaderFail("invalid raw file magic")
    ELSE IF Len(header_bytes) # 4 THEN HeaderFail("truncated raw header")
    ELSE IF header_bytes[1] # VERSION THEN HeaderFail("unsupported raw version")
    ELSE IF header_bytes[2] >= Len(UNIT_NAMES) THEN HeaderFail("invalid unit enum")
    ELSE IF Len(fixed) # 32 THEN HeaderFail("truncated raw header")
    ELSE IF Len(case_len_bytes) # 4 THEN HeaderFail("truncated raw header")
    ELSE ReadHeaderCase(data, header_bytes, fixed, UnpackLE(case_len_bytes),
                        ReadN(data, 44, UnpackLE(case_len_bytes)))

\* _read_header on a stream holding `data`: [ok, err, header, pos], pos the
\* stream position after the header.
_read_header(data) ==
    ReadHeaderFixed(data, ReadN(data, 0, 4), ReadN(data, 4, 4), ReadN(data, 8, 32),
                    ReadN(data, 40, 4))

----------------------------------------------------------------------------
(* Encoding.                                                               *)

\* The buffer is flushed to the stream when it holds this many bytes.
FLUSH_BYTES == 65536

\* _encode_samples: [ok, err, written], written the bytes that reached the
\* stream: all of them when the call returns, and on a range error only
\* what had been flushed (the buffer is dropped with the exception).
\* An encoder that scales by truncating division, without the half unit.
RECURSIVE EncodeFrom_Floor(_, _, _, _, _, _)
EncodeFrom_Floor(samples, k, scale, prev, buffer, written) ==
    IF k > Len(samples) THEN [ok |-> TRUE, err |-> "", written |-> written \o buffer]
    ELSE IF ~ZigzagInRange((samples[k] \div scale) - prev)
    THEN [ok |-> FALSE, err |-> "delta out of int64 range", written |-> written]
    ELSE EncodeFrom_Floor(samples, k + 1, scale, samples[k] \div scale,
                          buffer \o _write_varint(_zigzag_encode((samples[k] \div scale) - prev)),
                          written)

RECURSIVE EncodeFrom(_, _, _, _, _, _)
EncodeFrom(samples, k, scale, prev, buffer, written) ==
    IF k > Len(samples) THEN [ok |-> TRUE, err |-> "", written |-> written \o buffer]
    ELSE
      LET scaled == (samples[k] + (scale \div 2)) \div scale
          delta == scaled - prev
          buffer1 == buffer \o _write_varint(_zigzag_encode(delta))
      IN  IF ~ZigzagInRange(delta)
          THEN [ok |-> FALSE, err |-> "delta out of int64 range", written |-> written]
          ELSE IF Len(buffer1) >= FLUSH_BYTES
          THEN EncodeFrom(samples, k + 1, scale, scaled, << >>, written \o buffer1)
          ELSE EncodeFrom(samples, k + 1, scale, scaled, buffer1, written)

_encode_samples(samples, unit) == EncodeFrom(samples, 1, UNIT_SCALE_NS(unit), 0, << >>, << >>)

RECURSIVE MinOf(_)
MinOf(samples) ==
    IF Len(samples) = 1 THEN samples[1]
    ELSE LET m == MinOf(Tail(samples)) IN IF samples[1] < m THEN samples[1] ELSE m

LlrMissing == [exists |-> FALSE, bytes |-> << >>]

\* encode_samples_to_llr, the file written: the header and the samples.
EncodeWrite(header1, e) ==
    [ok |-> e.ok, err |-> e.err, header |-> header1,
     file |-> [exists |-> TRUE, bytes |-> _write_header(header1) \o e.written]]

\* encode_samples_to_llr once "auto" is resolved: the unit is checked, the
\* caller's header updated, the file opened for writing.
EncodeWithUnit(samples, file, header, unit) ==
    IF unit \notin Range(UNIT_NAMES)
    THEN [ok |-> FALSE, err |-> "unknown unit", header |-> header, file |-> file]
    ELSE EncodeWrite([header EXCEPT !.unit = unit, !.sample_count = Len(samples)],
                     _encode_samples(samples, unit))

\* encode_samples_to_llr(samples, out_path, header, unit), out_path holding
\* `file`: [ok, err, header, file], header being the caller's header object
\* as the call leaves it.
encode_samples_to_llr(samples, file, header, unit) ==
    EncodeWithUnit(samples, file, header,
                   IF unit = "auto"
                   THEN choose_unit_from_min(IF Len(samples) > 0 THEN MinOf(samples) ELSE 0)
                   ELSE unit)

----------------------------------------------------------------------------
(* Decoding.                                                               *)

\* A decoder that rounds by adding a whole unit instead of half of one.
DecodeValue_WholeUnit(offset, prev, from_scale, to_scale) ==
    [more |-> TRUE, ok |-> TRUE, err |-> "",
     value |-> ((prev * from_scale) + to_scale) \div to_scale,
     offset |-> offset, prev |-> prev]

\* The body of the decoding loop once the delta is added: the value in the
\* unit asked for.
DecodeValue(offset, prev, from_scale, to_scale) ==
    [more |-> TRUE, ok |-> TRUE, err |-> "",
     value |-> ((prev * from_scale) + (to_scale \div 2)) \div to_scale,
     offset |-> offset, prev |-> prev]

\* The body of the decoding loop once the varint is read.
DecodeVarint(v, offset, prev, from_scale, to_scale) ==
    IF ~v.ok
    THEN [more |-> TRUE, ok |-> FALSE, err |-> v.err, value |-> 0,
          offset |-> offset, prev |-> prev]
    ELSE DecodeValue(v.offset, prev + _zigzag_decode(v.value), from_scale, to_scale)

\* A loop that runs to the end of the payload, whatever sample_count says.
DecodeOne_ToEnd(payload, offset, prev, produced, sample_count, from_scale, to_scale) ==
    IF ~(offset < Len(payload))
    THEN [more |-> FALSE, ok |-> TRUE, err |-> "", value |-> 0,
          offset |-> offset, prev |-> prev]
    ELSE DecodeVarint(_read_varint(payload, offset), offset, prev, from_scale, to_scale)

\* One turn of the decoding loop of read_llr and iter_llr_samples from
\* (offset, prev): [more, ok, err, value, offset, prev]; more is the loop
\* condition, given the number of values produced so far.
DecodeOne(payload, offset, prev, produced, sample_count, from_scale, to_scale) ==
    IF ~(offset < Len(payload) /\ produced < sample_count)
    THEN [more |-> FALSE, ok |-> TRUE, err |-> "", value |-> 0,
          offset |-> offset, prev |-> prev]
    ELSE DecodeVarint(_read_varint(payload, offset), offset, prev, from_scale, to_scale)

\* The loop of read_llr: [ok, err, samples].
RECURSIVE DecodeFrom(_, _, _, _, _, _, _)
DecodeTurn(payload, samples, sample_count, from_scale, to_scale, d) ==
    IF ~d.more THEN [ok |-> TRUE, err |-> "", samples |-> samples]
    ELSE IF ~d.ok THEN [ok |-> FALSE, err |-> d.err, samples |-> << >>]
    ELSE DecodeFrom(payload, d.offset, d.prev, Append(samples, d.value),
                    sample_count, from_scale, to_scale)

DecodeFrom(payload, offset, prev, samples, sample_count, from_scale, to_scale) ==
    DecodeTurn(payload, samples, sample_count, from_scale, to_scale,
               DecodeOne(payload, offset, prev, Len(samples), sample_count,
                         from_scale, to_scale))

ReadFail(e) == [ok |-> FALSE, err |-> e, header |-> NoHeader, samples |-> << >>]

\* read_llr, its return.
ReadLlrResult(header, d) ==
    IF ~d.ok THEN ReadFail(d.err)
    ELSE [ok |-> TRUE, err |-> "", header |-> header, samples |-> d.samples]

\* read_llr once the header and the payload are read.
ReadLlrPayload(bytes, h, unit) ==
    IF ~h.ok THEN ReadFail(h.err)
    ELSE IF unit \notin Range(UNIT_NAMES) THEN ReadFail("unknown unit")
    ELSE ReadLlrResult(h.header,
                       DecodeFrom(SubSeq(bytes, h.pos + 1, Len(bytes)), 0, 0, << >>,
                                  h.header.sample_count, UNIT_SCALE_NS(h.header.unit),
                                  UNIT_SCALE_NS(unit)))

\* read_llr(path, unit), path holding `file`: [ok, err, header, samples];
\* an exception returns nothing.
read_llr(file, unit) ==
    IF ~file.exists THEN ReadFail("FileNotFoundError")
    ELSE ReadLlrPayload(file.bytes, _read_header(file.bytes), unit)

----------------------------------------------------------------------------
(* The codec's inputs.                                                     *)

MaxSamples == 2

\* Raw sample values: the ends of the delta range, values on both sides of
\* a one-byte varint's limit, and a value that a coarser unit rounds.
SampleVals == { MinDelta, -1, 0, 64, 1500, MaxDelta }

RECURSIVE SeqsUpTo(_, _)
SeqsUpTo(S0, n) ==
    IF n = 0 THEN { << >> }
    ELSE LET shorter == SeqsUpTo(S0, n - 1)
         IN  shorter \cup { Append(q, x) : q \in { r \in shorter : Len(r) = n - 1 }, x \in S0 }

SampleSeqs == SeqsUpTo(SampleVals, MaxSamples)

\* The header of test_llr_roundtrip_ns_exact: case "noop", tag "quiet",
\* args "--flag" and "value".
HeaderTest ==
    [ case_name |-> <<110, 111, 111, 112>>,
      tags |-> << <<113, 117, 105, 101, 116>> >>,
      args |-> << <<45, 45, 102, 108, 97, 103>>, <<118, 97, 108, 117, 101>> >>,
      iters |-> 5, warmup |-> 0, pin_cpu |-> -1, unit |-> "ns", sample_count |-> 0 ]

\* A header as main() builds it for a pinned run with text outside ASCII:
\* case "café", tags "€" and "", no args; main() passes unit "ns"
\* and sample_count 0, here a stale unit and count from an earlier use.
HeaderPinned ==
    [ case_name |-> <<99, 97, 102, 233>>,
      tags |-> << <<8364>>, << >> >>,
      args |-> << >>,
      iters |-> 10000, warmup |-> 1000, pin_cpu |-> 3, unit |-> "ms", sample_count |-> 7 ]

Headers == { HeaderTest, HeaderPinned }

\* The units asked of the encoder ("sec" is no unit) and of the decoder.
EncodeUnits == { "ns", "us", "auto", "sec" }

DecodeUnits == { "ns", "us", "sec" }

----------------------------------------------------------------------------
(* The codec: a container is encoded, may lose bytes at its end, and is    *)
(* read back by read_llr or by the iter_llr_samples generator.             *)

InitCodec ==
    /\ index = NoFile
    /\ start = NoFile
    /\ before = NoFile
    /\ hist = << >>
    /\ wr = [p \in Writers |-> Idle]
    /\ inp \in [ samples : SampleSeqs, header : Headers, unit : EncodeUnits ]
    /\ llr = LlrMissing
    /\ cut = 0
    /\ enc = [pc |-> "none"]
    /\ dec = [pc |-> "none"]
    /\ it = [pc |-> "none"]
    /\ bad = NoDamage
    /\ csv = NoCsv
    /\ ld = [pc |-> "none"]
    /\ run = NoRun

\* The call's effects: the file, and what the caller holds afterwards.
Encoded(r) ==
    /\ llr' = r.file
    /\ enc' = [pc |-> IF r.ok THEN "ok" ELSE "error", err |-> r.err, header |-> r.header]

\* encode_samples_to_llr(samples, out_path, header, unit)
Encode ==
    /\ enc.pc = "none"
    /\ Encoded(encode_samples_to_llr(inp.samples, llr, inp.header, inp.unit))
    /\ UNCHANGED <<ivars, run, inp, cut, dec, it, bad, csv, ld>>

\* The container's stream ends early: the same header, the payload less its
\* last bytes (what a writer that stopped before its last bytes leaves).
Truncate ==
    /\ enc.pc = "ok" /\ cut = 0 /\ bad = NoDamage /\ dec.pc = "none" /\ it.pc = "none"
    /\ \E n \in 1..Len(llr.bytes) :
          /\ llr' = [llr EXCEPT !.bytes = SubSeq(llr.bytes, 1, Len(llr.bytes) - n)]
          /\ cut' = n
    /\ UNCHANGED <<ivars, run, inp, enc, dec, it, bad, csv, ld>>

\* What the caller of read_llr holds afterwards.
Decoded(unit, r) ==
    [pc |-> IF r.ok THEN "ok" ELSE "error", unit |-> unit, err |-> r.err,
     header |-> r.header, samples |-> r.samples]

\* Containers that no encoder call wrote as they are: one byte differs (in
\* the magic, the version byte, the unit byte or the low byte of
\* sample_count; positions counted from 1) or bytes follow the payload (a
\* complete varint, one that never ends, one with too many groups).
Damages ==
    { [kind |-> "byte", pos |-> 1, byte |-> 77],
      [kind |-> "byte", pos |-> 4, byte |-> 50],
      [kind |-> "byte", pos |-> 5, byte |-> 0],
      [kind |-> "byte", pos |-> 5, byte |-> 2],
      [kind |-> "byte", pos |-> 6, byte |-> 4],
      [kind |-> "byte", pos |-> 6, byte |-> 255],
      [kind |-> "byte", pos |-> 9, byte |-> 0],
      [kind |-> "byte", pos |-> 9, byte |-> 1],
      [kind |-> "pad", bytes |-> << 5 >>],
      [kind |-> "pad", bytes |-> << 128 >>],
      [kind |-> "pad", bytes |-> [k \in 1..((MaxShift \div 7) + 1) |-> 255]] }

Damaged(bytes, d) ==
    IF d.kind = "byte" THEN [bytes EXCEPT ![d.pos] = d.byte] ELSE bytes \o d.bytes

\* The file at the path is such a container.
Damage ==
    /\ enc.pc = "ok" /\ cut = 0 /\ bad = NoDamage /\ dec.pc = "none" /\ it.pc = "none"
    /\ \E d \in Damages :
          /\ bad' = d
          /\ llr' = [llr EXCEPT !.bytes = Damaged(llr.bytes, d)]
    /\ UNCHANGED <<ivars, run, inp, cut, enc, dec, it, csv, ld>>

\* read_llr(path, unit) with a unit of `units`, after the encode call.
DecodeIn(units) ==
    /\ enc.pc \in {"ok", "error"} /\ dec.pc = "none" /\ it.pc = "none"
    /\ \E unit \in units :
          dec' = Decoded(unit, read_llr(llr, unit))
    /\ UNCHANGED <<ivars, run, inp, llr, cut, enc, it, bad, csv, ld>>

\* read_llr(path, unit)
Decode == DecodeIn(DecodeUnits)

\* iter_llr_samples(path, unit): the generator is created; none of the
\* function's code runs before the first next().
IterCall ==
    /\ enc.pc # "none" /\ dec.pc = "none" /\ it.pc = "none"
    /\ \E unit \in DecodeUnits :
          it' = [pc |-> "created", unit |-> unit, err |-> "", header |-> NoHeader,
                 payload |-> << >>, offset |-> 0, prev |-> 0, count |-> 0, out |-> << >>]
    /\ UNCHANGED <<ivars, run, inp, llr, cut, enc, dec, bad, csv, ld>>

\* The generator as the first next() finds it once the lines before the
\* loop have run: the header and the payload read, the unit looked up.
IterOpened(g, file, h) ==
    IF ~file.exists THEN [g EXCEPT !.pc = "raised", !.err = "FileNotFoundError"]
    ELSE IF ~h.ok THEN [g EXCEPT !.pc = "raised", !.err = h.err]
    ELSE IF g.unit \notin Range(UNIT_NAMES)
    THEN [g EXCEPT !.pc = "raised", !.err = "unknown unit"]
    ELSE [g EXCEPT !.pc = "running", !.header = h.header,
                   !.payload = SubSeq(file.bytes, h.pos + 1, Len(file.bytes))]

\* One turn of the generator's loop: a value yielded to the caller (`out`),
\* the end (StopIteration) or an exception.
IterYield(g, d) ==
    IF ~d.more THEN [g EXCEPT !.pc = "done"]
    ELSE IF ~d.ok THEN [g EXCEPT !.pc = "raised", !.err = d.err]
    ELSE [g EXCEPT !.offset = d.offset, !.prev = d.prev,
                   !.count = @ + 1, !.out = Append(@, d.value)]

\* The generator resumed at its loop.
IterResume(g) ==
    IF g.pc = "raised" THEN g
    ELSE IterYield(g, DecodeOne(g.payload, g.offset, g.prev, g.count,
                                g.header.sample_count, UNIT_SCALE_NS(g.header.unit),
                                UNIT_SCALE_NS(g.unit)))

\* next() on the generator: it runs to its next yield, to its end or to an
\* exception.
IterNext ==
    /\ it.pc \in {"created", "running"}
    /\ it' = IterResume(IF it.pc = "created"
                        THEN IterOpened(it, llr, _read_header(llr.bytes))
                        ELSE it)
    /\ UNCHANGED <<ivars, run, inp, llr, cut, enc, dec, bad, csv, ld>>

----------------------------------------------------------------------------
(* Units: the unit auto chooses, the scaling at encode time and at decode  *)
(* time, for every unit of the table.                                      *)

\* Sample lists around the thresholds of auto and the rounding of each
\* unit, the minimum first or not, the empty list, and the list of
\* test_llr_roundtrip_auto_with_rounding. No value exceeds 10^9, so that
\* every product and sum of the codec stays within TLC's integers.
UnitSeqs ==
    { << >>, << 0 >>, << 99999 >>, << 100000 >>, << 499, 500, 1500 >>,
      << 100000, 150000, 250000, 249999 >>,
      << 250000, 99999 >>, << 99999999 >>, << 100000000 >>,
      << 100000499, 100000500 >>, << 100000000, 100000 >>,
      << 499999999, 500000000, 1000000000 >>, << 64, -1 >> }

\* The units of the table.
TableUnits == Range(UNIT_NAMES)

\* The units asked of the encoder.
StoreUnits == TableUnits \cup { "auto" }

\* Minima as two digits to the base 10^5, on both sides of each threshold
\* (-1, 0, 99999, 10^5, 10^8 - 1, 10^8, 10^11 - 1, 10^11, ...).
MinHis == { -1, 0, 1, 999, 1000, 999999, 1000000, 1000001 }

MinLos == { 0, 1, 99999 }

InitUnit ==
    /\ index = NoFile
    /\ start = NoFile
    /\ before = NoFile
    /\ hist = << >>
    /\ wr = [p \in Writers |-> Idle]
    /\ inp \in [ samples : UnitSeqs, header : { HeaderTest }, unit : StoreUnits,
                 min_hi : MinHis, min_lo : MinLos ]
    /\ llr = LlrMissing
    /\ cut = 0
    /\ enc = [pc |-> "none"]
    /\ dec = [pc |-> "none"]
    /\ it = [pc |-> "none"]
    /\ bad = NoDamage
    /\ csv = NoCsv
    /\ ld = [pc |-> "none"]
    /\ run = NoRun

\* choose_unit_from_min(min_ns), min_ns given by its two digits.
ChooseUnit ==
    /\ enc.pc = "none"
    /\ enc' = [pc |-> "chosen", unit |-> ChooseUnitWide(inp.min_hi, inp.min_lo)]
    /\ UNCHANGED <<ivars, run, inp, llr, cut, dec, it, bad, csv, ld>>

\* read_llr(path, unit) with each unit of the table.
DecodeScaled == DecodeIn(TableUnits)

NextUnit == ChooseUnit \/ Encode \/ DecodeScaled

SpecUnit == InitUnit /\ [][NextUnit]_vars

NextCodec == Encode \/ Truncate \/ Damage \/ Decode \/ IterCall \/ IterNext

SpecCodec == InitCodec /\ [][NextCodec]_vars

----------------------------------------------------------------------------
(* Claims about the codec.                                                 *)

\* The first value and the consecutive differences of the samples fit the
\* delta width.
RECURSIVE DeltasFitFrom(_, _, _)
DeltasFitFrom(samples, k, prev) ==
    k > Len(samples)
    \/ /\ samples[k] - prev >= MinDelta
       /\ samples[k] - prev <= MaxDelta
       /\ DeltasFitFrom(samples, k + 1, samples[k])

DeltasFit(samples) == DeltasFitFrom(samples, 1, 0)

\* The container was written with unit "ns", is whole, and was read back by
\* read_llr with unit "ns".
NsRoundTrip ==
    /\ inp.unit = "ns" /\ enc.pc # "none"
    /\ cut = 0 /\ bad = NoDamage
    /\ dec.pc # "none" /\ dec.unit = "ns"

\* C1: for a non-empty sample sequence whose first value and consecutive
\* differences fit the delta width, encoding with unit "ns" and reading back
\* with unit "ns" succeeds and returns the same samples in the same order
\* and a header equal to the input header in case_name, tags, args, iters,
\* warmup and pin_cpu, with unit "ns" and sample_count the number of samples.
C1_RoundTripNs ==
    (NsRoundTrip /\ Len(inp.samples) > 0 /\ DeltasFit(inp.samples)) =>
        /\ enc.pc = "ok" /\ dec.pc = "ok"
        /\ dec.samples = inp.samples
        /\ dec.header = [inp.header EXCEPT !.unit = "ns",
                                           !.sample_count = Len(inp.samples)]

\* A round trip of the two extreme deltas (the least first value, then the
\* greatest rise) under a header with text outside ASCII, a pinned CPU and
\* a stale unit and count.
C1_Witness ==
    /\ NsRoundTrip /\ dec.pc = "ok"
    /\ inp.samples = << MinDelta, -1 >>
    /\ inp.header = HeaderPinned
    /\ dec.samples = inp.samples

\* C4: a decode of a container whose payload holds fewer complete varints
\* than the header's sample_count declares never returns normally: read_llr
\* returns no sample list shorter than sample_count, and iter_llr_samples
\* does not end after yielding fewer values than sample_count.
C4_ShortPayloadFails ==
    /\ (dec.pc = "ok" => Len(dec.samples) >= dec.header.sample_count)
    /\ (it.pc = "done" => Len(it.out) >= it.header.sample_count)

----------------------------------------------------------------------------
(* Claims about skip mode.                                                 *)

\* C11: update_index_csv with mode skip performs no file mutation: an
\* existing index file keeps its header and rows, and a missing index file
\* is not created.
C11_SkipLeavesFile ==
    (Wrote /\ Last.mode = "skip") => index = before

\* A skip against a missing index file, which stays missing.
C11_Witness ==
    /\ Wrote /\ Last.mode = "skip"
    /\ ~before.exists /\ ~index.exists

----------------------------------------------------------------------------
(* Claims about containers that cannot be decoded.                         *)

\* The container's first 4 bytes are not the magic.
BadMagic == ReadN(llr.bytes, 0, 4) # MAGIC

\* The version byte is there and is not 1.
BadVersion == Len(llr.bytes) >= 5 /\ llr.bytes[5] # 1

\* The unit byte is there and is 4 or more.
BadUnitIndex == Len(llr.bytes) >= 6 /\ llr.bytes[6] >= 4

\* The stream ends before the end of the header the encoder wrote: inside
\* the fixed-width part, a length prefix or a string body.
EndsInsideHeader == cut > 0 /\ Len(llr.bytes) < Len(_write_header(enc.header))

\* read_llr, if it was called, raised and returned nothing.
ReadLlrRaised ==
    dec.pc # "none" => (dec.pc = "error" /\ dec.header = NoHeader /\ dec.samples = << >>)

\* The generator, if it was resumed, raised without having yielded.
IterRaisedAtOnce ==
    it.pc \notin {"none", "created"} =>
        (it.pc = "raised" /\ it.out = << >> /\ it.header = NoHeader)

\* C12: decoding fails with an error and returns neither a header nor
\* samples when the container's first 4 bytes are not the magic, when the
\* version byte is not 1, when the unit index is 4 or more, or when the
\* stream ends inside the fixed-width header, a length prefix or a case,
\* tag or arg string body.
C12_BadHeaderFails ==
    (enc.pc = "ok" /\ (BadMagic \/ BadVersion \/ BadUnitIndex \/ EndsInsideHeader)) =>
        (ReadLlrRaised /\ IterRaisedAtOnce)

\* read_llr raised on a container with version byte 2.
C12_Witness ==
    /\ bad = [kind |-> "byte", pos |-> 5, byte |-> 2]
    /\ BadVersion /\ ~BadMagic /\ ~BadUnitIndex
    /\ dec.pc = "error" /\ dec.err = "unsupported raw version"

----------------------------------------------------------------------------
(* Claims about units and scaling.                                         *)

\* A raw value in a unit of `scale` nanoseconds, rounded half up.
ScaledTo(raw, scale) == (raw + (scale \div 2)) \div scale

ScaledSeq(samples, scale) == [k \in 1..Len(samples) |-> ScaledTo(samples[k], scale)]

\* The encode call was made with a unit of the table or with "auto".
UnitAccepted == enc.pc # "none" /\ inp.unit \in Range(UNIT_NAMES) \cup {"auto"}

\* The unit the samples are stored in: the one asked for, or the one that
\* auto chose and the call left in the header.
StoredUnit == IF inp.unit = "auto" THEN enc.header.unit ELSE inp.unit

\* C13: encoding raises an error whenever the first unit-scaled value or
\* the difference between two consecutive unit-scaled values is outside the
\* signed delta range; no such sequence is encoded (wrapped around).
C13_RangeErrorRaised ==
    (UnitAccepted /\ ~DeltasFit(ScaledSeq(inp.samples, UNIT_SCALE_NS(StoredUnit)))) =>
        (enc.pc = "error" /\ enc.err = "delta out of int64 range")

\* The encode of a rise one greater than the greatest delta was refused.
C13_Witness ==
    /\ inp.samples = << MinDelta, 0 >> /\ inp.unit = "ns"
    /\ enc.pc = "error" /\ enc.err = "delta out of int64 range"

----------------------------------------------------------------------------
(* Claims about what a refused call leaves behind.                         *)

\* C14: when encode_samples_to_llr fails with a range violation, no bytes
\* have been written to the output file: the file at out_path, absent
\* before the call, is absent after it.
C14_RangeErrorWritesNothing ==
    (enc.pc = "error" /\ enc.err = "delta out of int64 range") => llr = LlrMissing

\* C15: a call given a unit outside the table (and, for encode, other than
\* auto) is rejected before any work begins: encode creates no output file
\* and leaves the header as it was, and read_llr reports the unknown unit
\* whatever the state of the container.
C15_UnknownUnitRejectedFirst ==
    /\ (enc.pc # "none" /\ inp.unit \notin Range(UNIT_NAMES) \cup {"auto"}) =>
           /\ enc.pc = "error" /\ enc.err = "unknown unit"
           /\ llr = LlrMissing
           /\ enc.header = inp.header
    /\ (dec.pc # "none" /\ dec.unit \notin Range(UNIT_NAMES)) =>
           (dec.pc = "error" /\ dec.err = "unknown unit")

----------------------------------------------------------------------------
(* Claims about the unit that auto chooses and about rounding.             *)

\* The unit the thresholds give for hi * 10^5 + lo: s from 10^11, ms from
\* 10^8 to below 10^11, us from 10^5 to below 10^8, ns below 10^5.
UnitByTable(hi) ==
    CASE hi >= 1000000 -> "s"
      [] hi >= 1000 /\ hi <= 999999 -> "ms"
      [] hi >= 1 /\ hi <= 999 -> "us"
      [] OTHER -> "ns"

\* The least of the samples, 0 for none.
LeastOrZero(samples) ==
    IF samples = << >> THEN 0
    ELSE CHOOSE m \in Range(samples) : \A x \in Range(samples) : m <= x

\* The unit the thresholds give for a minimum below 2^31 (and so below
\* 10^11).
UnitOfMin(m) ==
    IF m >= 100000000 THEN "ms" ELSE IF m >= 100000 THEN "us" ELSE "ns"

\* The points the specification names: 0, 99999, 10^5, 10^8, 10^11.
ChosenAtNamedPoints ==
    /\ (inp.min_hi = 0 /\ inp.min_lo = 0) => enc.unit = "ns"
    /\ (inp.min_hi = 0 /\ inp.min_lo = 99999) => enc.unit = "ns"
    /\ (inp.min_hi = 1 /\ inp.min_lo = 0) => enc.unit = "us"
    /\ (inp.min_hi = 1000 /\ inp.min_lo = 0) => enc.unit = "ms"
    /\ (inp.min_hi = 1000000 /\ inp.min_lo = 0) => enc.unit = "s"

\* C16: in auto mode the stored unit is a function of the least raw sample
\* only: s from 10^11, ms from 10^8, us from 10^5, ns below (ns for 0 and
\* 99999, us for 100000, ms for 10^8, s for 10^11), an empty list counting
\* as a minimum of 0. The unit is the one left in the header and the one
\* written to the file.
C16_AutoUnitByMinimum ==
    /\ enc.pc = "chosen" =>
           (enc.unit = UnitByTable(inp.min_hi) /\ ChosenAtNamedPoints)
    /\ (enc.pc \in {"ok", "error"} /\ inp.unit = "auto") =>
           /\ enc.header.unit = UnitOfMin(LeastOrZero(inp.samples))
           /\ llr.exists /\ UNIT_NAMES[llr.bytes[6] + 1] = enc.header.unit

\* The minimum 10^11 gave s.
C16_Witness ==
    /\ enc.pc = "chosen" /\ inp.min_hi = 1000000 /\ inp.min_lo = 0
    /\ enc.unit = "s"

\* The raw values each rounded half up to a multiple of the unit.
RoundedToUnit(samples, scale) ==
    [k \in 1..Len(samples) |-> ((samples[k] + (scale \div 2)) \div scale) * scale]

\* The container is as the encoder wrote it and read_llr was called.
WholeAndRead == enc.pc = "ok" /\ cut = 0 /\ bad = NoDamage /\ dec.pc # "none"

\* C17: encoding non-negative samples in a unit (given or chosen by auto)
\* and decoding to ns yields at every position the raw value rounded half
\* up to a multiple of the unit; [100000, 150000, 250000, 249999] in auto
\* mode is stored as us and decodes to [100000, 150000, 250000, 250000].
C17_DecodedNsIsRounded ==
    (WholeAndRead /\ dec.unit = "ns" /\ \A k \in 1..Len(inp.samples) : inp.samples[k] >= 0) =>
        /\ dec.pc = "ok"
        /\ dec.samples = RoundedToUnit(inp.samples, UNIT_SCALE_NS(StoredUnit))
        /\ (inp.samples = << 100000, 150000, 250000, 249999 >> /\ inp.unit = "auto") =>
               /\ enc.header.unit = "us"
               /\ dec.samples = << 100000, 150000, 250000, 250000 >>

\* The list of the test, encoded in auto mode and decoded to ns.
C17_Witness ==
    /\ WholeAndRead /\ dec.unit = "ns" /\ dec.pc = "ok"
    /\ inp.samples = << 100000, 150000, 250000, 249999 >> /\ inp.unit = "auto"
    /\ dec.samples[4] = 250000

\* C18: decoding a container with the unit it was stored in is exact: for
\* every stored unit and every sample it returns the unit-scaled value
\* computed at encode time, (raw + scale div 2) div scale.
C18_SameUnitExact ==
    (WholeAndRead /\ dec.unit = StoredUnit) =>
        /\ dec.pc = "ok"
        /\ dec.samples = ScaledSeq(inp.samples, UNIT_SCALE_NS(StoredUnit))

\* Three values stored in ms and read back in ms, one of them rounded up
\* at encode time.
C18_Witness ==
    /\ WholeAndRead /\ dec.unit = "ms" /\ inp.unit = "ms" /\ dec.pc = "ok"
    /\ inp.samples = << 499999999, 500000000, 1000000000 >>
    /\ dec.samples = << 500, 500, 1000 >>

----------------------------------------------------------------------------
(* Claims about where decoding stops.                                      *)

\* Bytes were added after the payload the encoder wrote.
Padded == bad.kind = "pad"

\* The container without the bytes added after its payload.
Unpadded == [llr EXCEPT !.bytes = SubSeq(llr.bytes, 1, Len(llr.bytes) - Len(bad.bytes))]

\* The low byte of sample_count was set to a count below the number of
\* samples the payload holds.
CountLowered == bad.kind = "byte" /\ bad.pos = 9 /\ bad.byte < Len(inp.samples)

\* The container with the sample_count the encoder wrote.
CountRestored == [llr EXCEPT !.bytes[9] = Len(inp.samples)]

----------------------------------------------------------------------------
(* results_lib.py: load_samples, and raw_format.py: read_raw_csv_list.     *)
(*                                                                         *)
(* raw.csv is [exists, lines], each line the list of fields csv.reader     *)
(* makes of it (an empty line is the empty list).                          *)

DigitOf(c) ==
    CASE c = "0" -> 0 [] c = "1" -> 1 [] c = "2" -> 2 [] c = "3" -> 3 [] c = "4" -> 4
      [] c = "5" -> 5 [] c = "6" -> 6 [] c = "7" -> 7 [] c = "8" -> 8 [] c = "9" -> 9
      [] OTHER -> -1

\* The value of a string of decimal digits, -1 when it is empty or holds
\* anything else.
RECURSIVE DigitsValue(_, _)
DigitsValue(s, acc) ==
    IF Len(s) = 0 THEN acc
    ELSE IF DigitOf(SubSeq(s, 1, 1)) < 0 THEN -1
    ELSE DigitsValue(Tail(s), (acc * 10) + DigitOf(SubSeq(s, 1, 1)))

\* int(s) for a field of decimal digits with an optional minus sign;
\* anything else here is a ValueError.
PyInt(s) ==
    IF Len(s) > 1 /\ SubSeq(s, 1, 1) = "-"
    THEN [ok |-> DigitsValue(Tail(s), 0) >= 0, value |-> -DigitsValue(Tail(s), 0)]
    ELSE [ok |-> Len(s) > 0 /\ DigitsValue(s, 0) >= 0, value |-> DigitsValue(s, 0)]

\* read_raw_csv_samples, the loop over the rows after the header line.
RECURSIVE CsvSamplesFrom(_, _, _)
CsvSamplesFrom(lines, k, samples) ==
    IF k > Len(lines) THEN [ok |-> TRUE, err |-> "", samples |-> samples]
    ELSE IF Len(lines[k]) = 0 THEN CsvSamplesFrom(lines, k + 1, samples)
    ELSE IF Len(lines[k]) < 2
    THEN [ok |-> FALSE, err |-> "invalid raw.csv row", samples |-> << >>]
    ELSE IF ~PyInt(lines[k][2]).ok
    THEN [ok |-> FALSE, err |-> "invalid literal for int()", samples |-> << >>]
    ELSE CsvSamplesFrom(lines, k + 1, Append(samples, PyInt(lines[k][2]).value))

\* read_raw_csv_list(path) on an existing file: [ok, err, samples].
read_raw_csv_list(file) == CsvSamplesFrom(file.lines, 2, << >>)

\* What load_samples hands its caller.
Loaded(r) == [pc |-> IF r.ok THEN "ok" ELSE "error", err |-> r.err, samples |-> r.samples]

\* A load_samples that looks for raw.csv first.
load_samples_CsvFirst(raw_llr, raw_csv, unit) ==
    IF raw_csv.exists THEN Loaded(read_raw_csv_list(raw_csv))
    ELSE IF raw_llr.exists THEN Loaded(read_llr(raw_llr, unit))
    ELSE [pc |-> "error", err |-> "FileNotFoundError", samples |-> << >>]

\* load_samples(run_dir, unit), run_dir holding raw.llr.xz as `raw_llr` and
\* raw.csv as `raw_csv`.
load_samples(raw_llr, raw_csv, unit) ==
    IF raw_llr.exists THEN Loaded(read_llr(raw_llr, unit))
    ELSE IF raw_csv.exists THEN Loaded(read_raw_csv_list(raw_csv))
    ELSE [pc |-> "error", err |-> "FileNotFoundError", samples |-> << >>]

\* The raw.csv of a run: the header line and one line "iter,ns" a sample.
CsvOf(samples) ==
    [exists |-> TRUE,
     lines |-> << << "iter", "ns" >> >>
               \o [k \in 1..Len(samples) |-> << IntToStr(k - 1), IntToStr(samples[k]) >>]]

\* The container an encode call with unit "ns" writes.
LlrOf(samples) == encode_samples_to_llr(samples, LlrMissing, HeaderTest, "ns").file

\* raw.llr.xz in the run directory: none, the one of
\* test_load_samples_prefers_llr, one without samples, one that is no
\* container, one whose payload ends inside a varint.
LoadLlrs ==
    { LlrMissing, LlrOf(<< 1000, 2000, 3000 >>), LlrOf(<< >>),
      [exists |-> TRUE, bytes |-> << 77, 76, 82, 49 >>],
      [exists |-> TRUE,
       bytes |-> SubSeq(LlrOf(<< 1000 >>).bytes, 1, Len(LlrOf(<< 1000 >>).bytes) - 1)] }

\* raw.csv in the run directory: none, files of other samples than the
\* container's, an empty file, a header alone, a file with an empty line,
\* one with a short row, one with a field that is no number.
LoadCsvs ==
    { NoCsv, CsvOf(<< 7, 8, 9 >>), CsvOf(<< 1500, -3 >>), CsvOf(<< >>),
      [exists |-> TRUE, lines |-> << >>],
      [exists |-> TRUE, lines |-> << << "iter", "ns" >>, << "0", "12" >>, << >>, << "1", "34" >> >>],
      [exists |-> TRUE, lines |-> << << "iter", "ns" >>, << "0", "12" >>, << "1" >> >>],
      [exists |-> TRUE, lines |-> << << "iter", "ns" >>, << "0", "1x" >> >>] }

LoadUnits == { "ns", "us", "sec" }

InitLoad ==
    /\ index = NoFile
    /\ start = NoFile
    /\ before = NoFile
    /\ hist = << >>
    /\ wr = [p \in Writers |-> Idle]
    /\ inp \in [ unit : LoadUnits ]
    /\ llr \in LoadLlrs
    /\ csv \in LoadCsvs
    /\ cut = 0
    /\ enc = [pc |-> "none"]
    /\ dec = [pc |-> "none"]
    /\ it = [pc |-> "none"]
    /\ bad = NoDamage
    /\ ld = [pc |-> "none"]
    /\ run = NoRun

\* load_samples(run_dir, unit)
Load ==
    /\ ld.pc = "none"
    /\ ld' = load_samples(llr, csv, inp.unit)
    /\ UNCHANGED <<ivars, run, inp, llr, cut, enc, dec, it, bad, csv>>

NextLoad == Load

SpecLoad == InitLoad /\ [][NextLoad]_vars

----------------------------------------------------------------------------
(* Claims about load_samples.                                              *)

\* C20: load_samples reads the samples from raw.llr.xz whenever that file
\* exists in the run directory, even if raw.csv exists too (an unreadable
\* container is an error, not a reason to read raw.csv), falls back to
\* raw.csv only when raw.llr.xz does not exist, and raises
\* FileNotFoundError when neither file exists.
C20_LoadPrefersLlr ==
    ld.pc # "none" =>
        /\ llr.exists => ld = Loaded(read_llr(llr, inp.unit))
        /\ (llr = LlrOf(<< 1000, 2000, 3000 >>) /\ inp.unit = "ns") =>
               (ld.pc = "ok" /\ ld.samples = << 1000, 2000, 3000 >>)
        /\ (~llr.exists /\ csv.exists) => ld = Loaded(read_raw_csv_list(csv))
        /\ (~llr.exists /\ csv = CsvOf(<< 7, 8, 9 >>)) =>
               (ld.pc = "ok" /\ ld.samples = << 7, 8, 9 >>)
        /\ (~llr.exists /\ ~csv.exists) =>
               (ld.pc = "error" /\ ld.err = "FileNotFoundError")

\* Both files exist and the container's samples were returned.
C20_Witness ==
    /\ llr = LlrOf(<< 1000, 2000, 3000 >>) /\ csv = CsvOf(<< 7, 8, 9 >>)
    /\ inp.unit = "ns"
    /\ ld.pc = "ok" /\ ld.samples = << 1000, 2000, 3000 >>

----------------------------------------------------------------------------
(* Two processes writing the same index file in replace mode. Each call    *)
(* reads the file (run_bench.py:272-275) and later rewrites it (277-280);  *)
(* nothing is held between the two: no lock, no temporary file, no second  *)
(* read. The rewrite (open, header, rows, close) is one step here: the     *)
(* step-level model above follows its file operations for one writer, and  *)
(* letting two rewrites overlap adds outcomes without removing any.        *)

\* Each process is one run of run_bench.py: main calls update_index_csv once.
RaceBegin(p) == At(p, "idle") /\ \E row \in Rows : Begin(p, "replace", row)

\* (mutant) the rewrite reads the file again: a read-modify-write in one step.
RaceRewrite_ReadAgain(p) ==
    /\ At(p, "r_open")
    /\ index' = update_index_csv(index, wr[p].row, "replace")
    /\ Goto(p, "done")
    /\ UNCHANGED <<before, start, hist, cvars>>

\* path.open("w"), writeheader(), writerows(filtered) with what the call read.
RaceRewrite(p) ==
    /\ At(p, "r_open")
    /\ index' = WriteRows(WriteHeader(OpenTruncate, wr[p].fields), wr[p].fields, wr[p].rows)
    /\ Goto(p, "done")
    /\ UNCHANGED <<before, start, hist, cvars>>

NextRace == \E p \in Writers : RaceBegin(p) \/ ReplaceRead(p) \/ RaceRewrite(p)

SpecRace == Init /\ [][NextRace]_vars

----------------------------------------------------------------------------
(* C21: two replace writers with different identity keys can interleave    *)
(* read and rewrite so that the final file lacks one writer's row. As a    *)
(* step: when writer q has read the file at a time it held no row with     *)
(* writer p's key, and p has since completed its call and its row is in    *)
(* the file, q's rewrite leaves the file without any row of p's key.       *)

\* The rows a call holds in memory include none with this key.
HoldsNoKey(p, key) == \A k \in 1..Len(wr[p].rows) : _index_key(wr[p].rows[k]) # key

C21_RewriteDropsUnseenRow ==
    [][ \A p \in Writers : \A q \in Writers \ {p} :
          ( /\ At(p, "done") /\ At(q, "r_open") /\ wr'[q].pc = "done"
            /\ _index_key(wr[p].row) # _index_key(wr[q].row)
            /\ RowsWithKey(index, RowKey(wr[p].row)) # {}
            /\ HoldsNoKey(q, _index_key(wr[p].row)) )
          => RowsWithKey(index', RowKey(wr[p].row)) = {} ]_vars

\* Both writers completed a replace call with different keys, the file was
\* empty or missing at the start, and the file holds the row of one only.
C21_Witness ==
    /\ NumRows(start) = 0
    /\ At(1, "done") /\ At(2, "done")
    /\ _index_key(wr[1].row) # _index_key(wr[2].row)
    /\ RowsWithKey(index, RowKey(wr[1].row)) = {}
    /\ RowsWithKey(index, RowKey(wr[2].row)) # {}
    /\ NumRows(index) = 1
    /\ Len(hist) = 2

----------------------------------------------------------------------------
(* Claims about a decode that fails partway.                               *)

\* C22: when decoding fails partway through the payload, the caller has
\* received no sample value before the error, from read_llr and from the
\* iter_llr_samples generator alike.
C22_NoValueBeforeError ==
    /\ (dec.pc = "error" => dec.samples = << >>)
    /\ (it.pc = "raised" => it.out = << >>)

----------------------------------------------------------------------------
(* Claims about the identity key.                                          *)

\* Stored record r of `before` and the written row agree, as text, in each
\* of the nine identity fields: the stored cell (empty when the file has no
\* such column) is the decimal or literal text of the row's field (empty
\* when the row has no such field).
SameKeyText(r, row) ==
    \A k \in 1..Len(INDEX_KEY_FIELDS) :
        Cell(before, r, INDEX_KEY_FIELDS[k]) = RowText(row, INDEX_KEY_FIELDS[k])

\* C23: replace-mode matching compares the nine identity fields by their
\* string form, a missing field counting as the empty string: the stored
\* records a replace write discards are exactly those that agree with the
\* incoming row in the text of all nine fields (an integer -1 agreeing with
\* the text -1, and with neither an empty cell nor a missing column); the
\* others follow in their order, then the incoming row.
C23_KeyComparedAsText ==
    (Wrote /\ Last.mode = "replace") =>
        LET differing == SelectSeq([ r \in 1..NumRows(before) |-> r ],
                                   LAMBDA r : ~SameKeyText(r, Last.row))
        IN  /\ NumRows(index) = Len(differing) + 1
            /\ \A j \in 1..Len(differing) :
                   /\ StoredKey(index, j) = StoredKey(before, differing[j])
                   /\ Cell(index, j, "run_dir") = Cell(before, differing[j], "run_dir")

\* A file that lacked the noise columns received a replace write and then a
\* second one of the same configuration with integer pin_cpu -1 and
\* noise_cpu -1: the record holding the texts -1 was matched and discarded,
\* the records whose noise_cpu is empty were not.
C23_Witness ==
    /\ start = OldFile /\ Len(hist) = 2
    /\ hist[1].mode = "replace" /\ Last.mode = "replace"
    /\ Last.row = RowA2 /\ RowA2.pin_cpu = I(-1) /\ RowA2.noise_cpu = I(-1)
    /\ "noise_cpu" \notin Range(HeaderOf(start))
    /\ NumRows(before) = 3 /\ NumRows(index) = 3
    /\ Cell(before, 3, "pin_cpu") = "-1" /\ Cell(before, 3, "noise_cpu") = "-1"
    /\ Cell(before, 3, "run_dir") # Cell(index, 3, "run_dir")
    /\ \A r \in 1..2 : /\ Cell(index, r, "noise_cpu") = ""
                       /\ Cell(index, r, "pin_cpu") = "-1"
                       /\ Cell(index, r, "run_dir") = Cell(before, r, "run_dir")

----------------------------------------------------------------------------
(* The functions of the scripts applied on their own to drawn arguments:   *)
(* _zigzag_encode and _write_varint on a delta, _read_varint and           *)
(* _zigzag_decode on a buffer, compute_quantiles on a sample list.         *)

\* Deltas at both ends of the range and just outside it, around zero, and
\* on both sides of the values whose varint grows by a byte.
VarintDeltas ==
    ((MinDelta - 1)..(MinDelta + 2)) \cup ((MaxDelta - 2)..(MaxDelta + 1))
        \cup (-130..130) \cup (-8194..-8190) \cup (8190..8194)

\* What the buffer holds before the varint is appended.
Prefixes == { << >>, << 255, 0 >>, << 7, 128 >> }

\* The number of 7-bit groups of a value of IntBits bits (10 in the code).
Groups == MaxShift \div 7

\* Buffers no encoder call wrote: the greatest value of IntBits bits, a last
\* group with every payload bit set, one group more than IntBits bits need,
\* two groups more, a varint that does not end, no bytes.
GivenBuffers ==
    { << 0 >>, << 127 >>, << 128, 1 >>,
      [ k \in 1..Groups |-> IF k < Groups THEN 255 ELSE (2 ^ (IntBits - 7 * (Groups - 1))) - 1 ],
      [ k \in 1..Groups |-> IF k < Groups THEN 128 ELSE 127 ],
      [ k \in 1..(Groups + 1) |-> IF k <= Groups THEN 128 ELSE 1 ],
      [ k \in 1..(Groups + 1) |-> IF k <= Groups THEN 255 ELSE 127 ],
      [ k \in 1..(Groups + 2) |-> IF k <= Groups + 1 THEN 128 ELSE 1 ],
      << 128 >>, << >> }

\* Sample lists for compute_quantiles: every list of up to 4 of 4 values,
\* the list of test_compute_quantiles_basic, and lists of 101 and 102
\* values in no order (102 makes the four picks and the maximum differ).
QuantileSeqs ==
    SeqsUpTo({ -2, 0, 3, 7 }, 4)
        \cup { << 5, 1, 4, 2, 3 >> }
        \cup { [ k \in 1..n |-> ((k * 37) % 211) - 40 ] : n \in { 101, 102 } }

InitFunctions ==
    /\ index = NoFile
    /\ start = NoFile
    /\ before = NoFile
    /\ hist = << >>
    /\ wr = [p \in Writers |-> Idle]
    /\ \/ /\ inp \in [ kind : { "delta" }, delta : VarintDeltas, prefix : Prefixes ]
          /\ enc = [pc |-> "none"]
       \/ /\ inp = [kind |-> "buffer"]
          /\ enc \in [ pc : { "given" }, buffer : GivenBuffers, offset : { 0 } ]
       \/ /\ inp \in [ kind : { "samples" }, samples : QuantileSeqs ]
          /\ enc = [pc |-> "none"]
    /\ llr = LlrMissing
    /\ cut = 0
    /\ dec = [pc |-> "none"]
    /\ it = [pc |-> "none"]
    /\ bad = NoDamage
    /\ csv = NoCsv
    /\ ld = [pc |-> "none"]
    /\ run = NoRun

\* _write_varint(_zigzag_encode(delta), buffer), as _encode_samples calls
\* them: the zigzag value and the buffer afterwards, or the range error.
ZigzagWrite ==
    /\ inp.kind = "delta" /\ enc.pc = "none"
    /\ enc' = IF ~ZigzagInRange(inp.delta)
              THEN [pc |-> "error", err |-> "delta out of int64 range"]
              ELSE [pc |-> "written", value |-> _zigzag_encode(inp.delta),
                    buffer |-> inp.prefix \o _write_varint(_zigzag_encode(inp.delta)),
                    offset |-> Len(inp.prefix)]
    /\ UNCHANGED <<ivars, run, inp, llr, cut, dec, it, bad, csv, ld>>

\* value, offset = _read_varint(buffer, offset); _zigzag_decode(value)
VarintRead ==
    /\ enc.pc \in {"written", "given"} /\ dec.pc = "none"
    /\ LET v == _read_varint(enc.buffer, enc.offset)
       IN  dec' = IF ~v.ok THEN [pc |-> "error", err |-> v.err]
                  ELSE [pc |-> "ok", value |-> v.value, offset |-> v.offset,
                        delta |-> _zigzag_decode(v.value)]
    /\ UNCHANGED <<ivars, run, inp, llr, cut, enc, it, bad, csv, ld>>

\* list.sort() on integers: the list in ascending order. Position k holds
\* the value with fewer than k elements below it and at least k elements
\* not above it.
ListSort(samples) ==
    [ k \in 1..Len(samples) |->
        CHOOSE v \in Range(samples) :
            /\ Cardinality({ i \in 1..Len(samples) : samples[i] < v }) < k
            /\ Cardinality({ i \in 1..Len(samples) : samples[i] <= v }) >= k ]

RECURSIVE SumFrom(_, _)
SumFrom(samples, k) == IF k > Len(samples) THEN 0 ELSE samples[k] + SumFrom(samples, k + 1)

\* (mutant) the index is rounded up.
pick_Up(samples, num, den) ==
    samples[(((num * (Len(samples) - 1)) + den - 1) \div den) + 1]

\* pick(p) for p = num / den: samples[int(p * last)], indices from 0 in the
\* code. The code multiplies the double nearest to p by last and truncates;
\* for p in 0.50, 0.95, 0.99, 0.999 and every last up to 200000 that is
\* the integer part of the exact product, which is what is computed here.
pick(samples, num, den) == samples[((num * (Len(samples) - 1)) \div den) + 1]

\* The dictionary returned for a sorted non-empty list; mean = total / n is
\* kept as the two integers.
QuantilesOf(samples, total) ==
    [ min |-> samples[1], p50 |-> pick(samples, 50, 100), p95 |-> pick(samples, 95, 100),
      p99 |-> pick(samples, 99, 100), p999 |-> pick(samples, 999, 1000),
      max |-> samples[Len(samples)], mean |-> [num |-> total, den |-> Len(samples)] ]

compute_quantiles(samples) ==
    IF samples = << >>
    THEN [ min |-> 0, p50 |-> 0, p95 |-> 0, p99 |-> 0, p999 |-> 0, max |-> 0,
           mean |-> [num |-> 0, den |-> 1] ]
    ELSE QuantilesOf(ListSort(samples), SumFrom(samples, 1))

\* stats = compute_quantiles(samples): the dictionary, and the caller's
\* list, which the call sorts in place.
Quantiles ==
    /\ inp.kind = "samples" /\ dec.pc = "none"
    /\ dec' = [pc |-> "stats", stats |-> compute_quantiles(inp.samples),
               samples |-> ListSort(inp.samples)]
    /\ UNCHANGED <<ivars, run, inp, llr, cut, enc, it, bad, csv, ld>>

NextFunctions == ZigzagWrite \/ VarintRead \/ Quantiles

SpecFunctions == InitFunctions /\ [][NextFunctions]_vars

----------------------------------------------------------------------------
(* Claims about the zigzag mapping and the varint.                         *)

\* The value of the 7-bit groups of bytes, the first the least significant.
RECURSIVE GroupsValue(_, _)
GroupsValue(bytes, k) ==
    IF k > Len(bytes) THEN 0 ELSE (bytes[k] % 128) + 128 * GroupsValue(bytes, k + 1)

\* The bytes the call appended to the buffer.
Appended == SubSeq(enc.buffer, Len(inp.prefix) + 1, Len(enc.buffer))

\* C24: for every delta d of the delta width, the zigzag value is in
\* [0, 2^width) and is 2d for d >= 0 and -2d - 1 for d < 0 (which is
\* (d << 1) xor (d >> width-1)); the varint appended holds it in 7-bit
\* groups, least significant first, the high bit set on every byte but the
\* last; reading back from the offset the varint was written at returns the
\* value and the offset just past the bytes written; un-zigzagging returns
\* d; and no other delta has the same bytes.
C24_ZigzagVarintRoundTrip ==
    (inp.kind = "delta" /\ ZigzagInRange(inp.delta) /\ enc.pc # "none") =>
        /\ enc.pc = "written"
        /\ enc.value >= 0 /\ enc.value < 2 ^ IntBits
        /\ enc.value = IF inp.delta >= 0 THEN 2 * inp.delta ELSE (-2 * inp.delta) - 1
        /\ SubSeq(enc.buffer, 1, Len(inp.prefix)) = inp.prefix
        /\ Len(Appended) >= 1
        /\ \A k \in 1..Len(Appended) :
               /\ Appended[k] \in 0..255
               /\ (Appended[k] >= 128) <=> (k < Len(Appended))
        /\ GroupsValue(Appended, 1) = enc.value
        /\ (Len(Appended) > 1 => Appended[Len(Appended)] # 0)
        /\ \A d \in VarintDeltas :
               (ZigzagInRange(d) /\ d # inp.delta) =>
                   _write_varint(_zigzag_encode(d)) # Appended
        /\ dec.pc # "none" =>
               /\ dec.pc = "ok"
               /\ dec.value = enc.value
               /\ dec.offset = Len(enc.buffer)
               /\ dec.delta = inp.delta

\* The least delta, written after bytes that end in a byte with the
\* continuation bit set, and read back: a varint of the greatest length.
C24_Witness ==
    /\ inp.kind = "delta" /\ inp.delta = MinDelta /\ inp.prefix = << 7, 128 >>
    /\ dec.pc = "ok" /\ dec.delta = MinDelta
    /\ enc.value = (2 ^ IntBits) - 1
    /\ Len(enc.buffer) = 2 + Groups

----------------------------------------------------------------------------
(* Claims about compute_quantiles.                                         *)

\* v is the element at index k (from 0) of the samples in ascending order:
\* at most k samples are below it and more than k are not above it.
AtIndexAscending(samples, v, k) ==
    /\ v \in Range(samples)
    /\ Cardinality({ i \in 1..Len(samples) : samples[i] < v }) <= k
    /\ Cardinality({ i \in 1..Len(samples) : samples[i] <= v }) > k

\* C25: for a non-empty sample list compute_quantiles returns min = the
\* smallest sample, max = the largest, and p50, p95, p99, p999 = the element
\* at index floor(p * (n - 1)) of the samples in ascending order, so that
\* min <= p50 <= p95 <= p99 <= p999 <= max and each of them is an element
\* of the input; for an empty list every statistic is 0.
C25_QuantilesByIndex ==
    (inp.kind = "samples" /\ dec.pc = "stats") =>
        IF inp.samples = << >>
        THEN /\ \A c \in {"min", "p50", "p95", "p99", "p999", "max"} : dec.stats[c] = 0
             /\ dec.stats.mean.num = 0
        ELSE /\ \A x \in Range(inp.samples) : dec.stats.min <= x /\ x <= dec.stats.max
             /\ dec.stats.min \in Range(inp.samples)
             /\ dec.stats.max \in Range(inp.samples)
             /\ AtIndexAscending(inp.samples, dec.stats.p50, (50 * (Len(inp.samples) - 1)) \div 100)
             /\ AtIndexAscending(inp.samples, dec.stats.p95, (95 * (Len(inp.samples) - 1)) \div 100)
             /\ AtIndexAscending(inp.samples, dec.stats.p99, (99 * (Len(inp.samples) - 1)) \div 100)
             /\ AtIndexAscending(inp.samples, dec.stats.p999, (999 * (Len(inp.samples) - 1)) \div 1000)
             /\ dec.stats.min <= dec.stats.p50 /\ dec.stats.p50 <= dec.stats.p95
             /\ dec.stats.p95 <= dec.stats.p99 /\ dec.stats.p99 <= dec.stats.p999
             /\ dec.stats.p999 <= dec.stats.max

\* A list of 102 samples in no order, for which the six statistics are six
\* different samples.
C25_Witness ==
    /\ inp.kind = "samples" /\ dec.pc = "stats" /\ Len(inp.samples) = 102
    /\ inp.samples # dec.samples
    /\ dec.stats.min < dec.stats.p50 /\ dec.stats.p50 < dec.stats.p95
    /\ dec.stats.p95 < dec.stats.p99 /\ dec.stats.p99 < dec.stats.p999
    /\ dec.stats.p999 < dec.stats.max

----------------------------------------------------------------------------
(* Claims about repeated replace writes.                                   *)

\* The last two writes are the same replace write.
ReplacedTwice ==
    /\ Len(hist) >= 2
    /\ Last.mode = "replace"
    /\ hist[Len(hist) - 1] = Last

\* C26: replace is idempotent: the second of two successive replace writes
\* of the same row leaves the index file as the first left it, with the
\* same header and the same rows in the same order, whatever the file held
\* before the first.
C26_ReplaceIdempotent == ReplacedTwice => index = before

\* The test's row replaced twice into a file of the older schema that held
\* two rows of its key: the first write migrated the header and replaced
\* both rows, the second changed nothing.
C26_Witness ==
    /\ ReplacedTwice /\ Len(hist) = 2
    /\ start = OldFile /\ Last.row = RowT
    /\ before # start
    /\ HeaderOf(index) # HeaderOf(start)
    /\ NumRows(start) = 2 /\ NumRows(index) = 1
    /\ index = before

----------------------------------------------------------------------------
(* Claims about the rounding error.                                        *)

AbsDiff(a, b) == IF a >= b THEN a - b ELSE b - a

\* C27: for non-negative raw samples and any stored unit U, each value
\* obtained by encoding in U and decoding to ns differs from the raw value
\* by at most scale_U div 2 nanoseconds, and by exactly 0 when U = ns.
C27_RoundingErrorBounded ==
    (WholeAndRead /\ dec.unit = "ns" /\ \A k \in 1..Len(inp.samples) : inp.samples[k] >= 0) =>
        /\ dec.pc = "ok"
        /\ Len(dec.samples) = Len(inp.samples)
        /\ \A k \in 1..Len(inp.samples) :
               /\ AbsDiff(dec.samples[k], inp.samples[k]) <= UNIT_SCALE_NS(StoredUnit) \div 2
               /\ StoredUnit = "ns" => dec.samples[k] = inp.samples[k]

\* Samples stored in us and read in ns, one of them half a unit away from
\* the value read (500 is read as 1000) and one a nanosecond less than half.
C27_Witness ==
    /\ WholeAndRead /\ dec.unit = "ns" /\ dec.pc = "ok"
    /\ inp.samples = << 499, 500, 1500 >> /\ inp.unit = "us"
    /\ dec.samples = << 0, 1000, 2000 >>

----------------------------------------------------------------------------
(* Claims about the varint reader's limit.                                 *)

\* C28: the varint decoder accepts only encodings whose value fits the
\* unsigned width (64 bits in the code, IntBits here): a byte sequence with
\* one group more than the width needs, or with a last group carrying more
\* bits than the width leaves for it, is rejected, so that every delta
\* decoded lies within the signed range.
C28_VarintFitsWidth ==
    (inp.kind \in {"delta", "buffer"} /\ dec.pc = "ok") =>
        /\ dec.value < 2 ^ IntBits
        /\ dec.delta >= MinDelta
        /\ dec.delta <= MaxDelta

----------------------------------------------------------------------------
(* Claims about the unit of what load_samples returns.                     *)

\* C29: load_samples returns values in the unit asked for whichever raw
\* file it reads: what it returns from a run directory holding only a
\* readable raw.csv is what it returns from a run directory holding only
\* the ns-encoded raw.llr.xz of the same samples.
C29_LoadSameFromEitherFile ==
    (ld.pc # "none" /\ ~llr.exists /\ csv.exists /\ read_raw_csv_list(csv).ok) =>
        ld = load_samples(LlrOf(read_raw_csv_list(csv).samples), NoCsv, inp.unit)

----------------------------------------------------------------------------
(* run_bench.py, main(): one run, from the benchmark to the return. A step *)
(* is one effect outside the process: the benchmark run, the container     *)
(* written, the summary written, the index updated, raw.csv deleted. The   *)
(* run directory is new (mkdir with exist_ok=False), so it holds neither   *)
(* raw.csv nor raw.llr.xz before the benchmark runs.                       *)

\* The command line, the benchmark's exit code and the raw.csv it leaves:
\* none, three samples, two samples whose rise no delta holds, a field
\* that is no number. --raw-unit takes only units of the table and auto.
MainInputs ==
    [ raw_format : { "llr-xz", "none" }, raw_unit : { "auto", "ns" },
      raw_drop_csv : BOOLEAN, update_mode : { "append", "skip", "replace" },
      returncode : { 0, 2 },
      bench_csv : { NoCsv, CsvOf(<< 9, 7, 8 >>), CsvOf(<< MinDelta, 0 >>),
                    [exists |-> TRUE, lines |-> << << "iter", "ns" >>, << "0", "1x" >> >>] } ]

InitMain ==
    /\ index \in { NoFile, OldFile }
    /\ start = index
    /\ before = index
    /\ hist = << >>
    /\ wr = [p \in Writers |-> Idle]
    /\ inp \in MainInputs
    /\ llr = LlrMissing
    /\ cut = 0
    /\ enc = [pc |-> "none"]
    /\ dec = [pc |-> "none"]
    /\ it = [pc |-> "none"]
    /\ bad = NoDamage
    /\ csv = NoCsv
    /\ ld = [pc |-> "none"]
    /\ run = [pc |-> "bench", rc |-> -1, did |-> << >>, samples |-> << >>,
              raw_unit |-> "", summary |-> NoFile]

\* main() returns rc / main() is left by an exception nothing catches.
Returned(rc) == [run EXCEPT !.pc = "returned", !.rc = rc]

Raised == [run EXCEPT !.pc = "raised"]

Did(effect, pc) == [run EXCEPT !.pc = pc, !.did = Append(@, effect)]

\* f"{mean:.6f}" for mean = total / n, from the integers: the whole part,
\* then the remainder's first six decimals rounded.
MeanText(total, n) ==
    LET a == IF total < 0 THEN -total ELSE total
        micro == (((a % n) * 1000000) + (n \div 2)) \div n
        digits == NatToStr(1000000 + micro)
    IN  (IF total < 0 THEN "-" ELSE "") \o NatToStr(a \div n) \o "."
            \o SubSeq(digits, 2, 7)

\* index_row, and in its first fields summary_row, for the run's samples.
IndexRow(stats, raw_format, raw_unit) ==
    [ RowA EXCEPT !.min = I(stats.min), !.p50 = I(stats.p50), !.p95 = I(stats.p95),
                  !.p99 = I(stats.p99), !.p999 = I(stats.p999), !.max = I(stats.max),
                  !.mean = S(MeanText(stats.mean.num, stats.mean.den)),
                  !.raw_llr_path = IF raw_format # "none" THEN RowA.raw_llr_path ELSE S(""),
                  !.raw_unit = S(raw_unit) ]

\* write_summary_csv(path, row): the file it leaves.
write_summary_csv(row) ==
    WriteRow(WriteHeader(OpenTruncate, SubSeq(INDEX_FIELDS, 2, 16)),
             SubSeq(INDEX_FIELDS, 2, 16), row)

\* subprocess.run(cmd): the benchmark runs and leaves raw.csv; on exit code
\* 0 main() looks for raw.csv and reads the samples.
RunBench ==
    /\ run.pc = "bench"
    /\ csv' = inp.bench_csv
    /\ run' = IF inp.returncode # 0 THEN Returned(inp.returncode)
              ELSE IF ~inp.bench_csv.exists THEN Returned(1)
              ELSE IF ~read_raw_csv_list(inp.bench_csv).ok THEN Raised
              ELSE [run EXCEPT !.pc = IF inp.raw_format # "none" THEN "encode" ELSE "summary",
                               !.samples = read_raw_csv_list(inp.bench_csv).samples]
    /\ UNCHANGED <<ivars, inp, llr, cut, enc, dec, it, bad, ld>>

\* encode_samples_to_llr(samples, raw_out_path, header, unit=args.raw_unit)
\* inside try / except Exception: return 1. opened = FALSE is a file that
\* cannot be opened for writing.
EncodeRaw ==
    /\ run.pc = "encode"
    /\ \E opened \in BOOLEAN :
          IF ~opened
          THEN /\ enc' = [pc |-> "error", err |-> "OSError", header |-> HeaderTest]
               /\ run' = Returned(1)
               /\ UNCHANGED llr
          ELSE /\ Encoded(encode_samples_to_llr(run.samples, llr, HeaderTest, inp.raw_unit))
               /\ run' = IF enc'.pc = "ok"
                         THEN [Did("encode", "summary") EXCEPT !.raw_unit = enc'.header.unit]
                         ELSE Returned(1)
    /\ UNCHANGED <<ivars, inp, cut, dec, it, bad, csv, ld>>

\* if args.update_mode != "skip": write_summary_csv(summary_path, summary_row);
\* written = FALSE is an exception from the write.
WriteSummary ==
    /\ run.pc = "summary"
    /\ \E written \in BOOLEAN :
          run' = IF inp.update_mode = "skip" THEN [run EXCEPT !.pc = "drop"]
                 ELSE IF ~written THEN Raised
                 ELSE [Did("summary", "index") EXCEPT !.summary =
                         write_summary_csv(IndexRow(compute_quantiles(run.samples),
                                                    inp.raw_format, run.raw_unit))]
    /\ UNCHANGED <<ivars, inp, llr, cut, enc, dec, it, bad, csv, ld>>

\* update_index_csv(index_path, index_row, args.update_mode); read = FALSE
\* is an exception before the file is touched.
UpdateIndex ==
    /\ run.pc = "index"
    /\ \E read \in BOOLEAN :
          IF ~read
          THEN /\ run' = Raised
               /\ UNCHANGED <<index, before, hist>>
          ELSE /\ before' = index
               /\ index' = update_index_csv(index, IndexRow(compute_quantiles(run.samples),
                                                           inp.raw_format, run.raw_unit),
                                            inp.update_mode)
               /\ hist' = Append(hist, [mode |-> inp.update_mode,
                                        row |-> IndexRow(compute_quantiles(run.samples),
                                                         inp.raw_format, run.raw_unit)])
               /\ run' = Did("index", "drop")
    /\ UNCHANGED <<start, wr, inp, llr, cut, enc, dec, it, bad, csv, ld>>

\* (mutant) raw.csv is deleted whenever --raw-drop-csv is given.
DropCsv_AnyFormat ==
    /\ run.pc = "drop"
    /\ IF inp.raw_drop_csv
       THEN csv' = NoCsv /\ run' = [Did("unlink", "returned") EXCEPT !.rc = inp.returncode]
       ELSE csv' = csv /\ run' = Returned(inp.returncode)
    /\ UNCHANGED <<ivars, inp, llr, cut, enc, dec, it, bad, ld>>

\* if args.raw_drop_csv and args.raw_format != "none": raw_csv_path.unlink(),
\* then return result.returncode.
DropCsv ==
    /\ run.pc = "drop"
    /\ IF inp.raw_drop_csv /\ inp.raw_format # "none"
       THEN csv' = NoCsv /\ run' = [Did("unlink", "returned") EXCEPT !.rc = inp.returncode]
       ELSE csv' = csv /\ run' = Returned(inp.returncode)
    /\ UNCHANGED <<ivars, inp, llr, cut, enc, dec, it, bad, ld>>

NextMain == RunBench \/ EncodeRaw \/ WriteSummary \/ UpdateIndex \/ DropCsv

SpecMain == InitMain /\ [][NextMain]_vars

----------------------------------------------------------------------------
(* Claims about the order of a run's effects.                              *)

\* The place of an effect in the order encode, summary, index, deletion.
EffectRank(effect) ==
    CASE effect = "encode" -> 1 [] effect = "summary" -> 2
      [] effect = "index" -> 3 [] effect = "unlink" -> 4

HasDone(effect) == \E k \in 1..Len(run.did) : run.did[k] = effect

\* C30: in a run of main(), raw.csv is deleted only after the container has
\* been written without error; a run whose benchmark exits non-zero or
\* whose encode fails deletes no raw.csv and writes neither the summary nor
\* the index; and the effects that happen happen in the order encode,
\* summary, index write, deletion of raw.csv.
C30_EffectsInOrder ==
    run.pc \notin {"none", "bench"} =>
        /\ \A j, k \in 1..Len(run.did) :
               j < k => EffectRank(run.did[j]) < EffectRank(run.did[k])
        /\ HasDone("summary") <=> run.summary.exists
        /\ HasDone("index") <=> hist # << >>
        /\ ~HasDone("index") => index = start
        /\ HasDone("unlink") <=> (inp.bench_csv.exists /\ ~csv.exists)
        /\ ~HasDone("unlink") => csv = inp.bench_csv
        /\ HasDone("unlink") =>
               /\ HasDone("encode") /\ enc.pc = "ok"
               /\ read_llr(llr, "ns").ok
               /\ read_llr(llr, "ns").header.sample_count = Len(run.samples)
        /\ HasDone("index") => HasDone("summary")
        /\ HasDone("summary") => (HasDone("encode") \/ inp.raw_format = "none")
        /\ (inp.returncode # 0 \/ enc.pc = "error") =>
               /\ run.did = << >>
               /\ run.pc = "returned" /\ run.rc # 0
               /\ csv = inp.bench_csv
               /\ ~run.summary.exists
               /\ index = start

\* A run with --raw-drop-csv and --update-mode replace that did all four:
\* the container holds the three samples, the summary and the index row
\* carry their statistics, and raw.csv is gone.
C30_Witness ==
    /\ run.pc = "returned" /\ run.rc = 0
    /\ run.did = << "encode", "summary", "index", "unlink" >>
    /\ inp.update_mode = "replace" /\ start = OldFile
    /\ ~csv.exists /\ llr.exists
    /\ read_llr(llr, "ns").samples = << 9, 7, 8 >>
    /\ run.summary.lines[2][9] = "7" /\ run.summary.lines[2][15] = "8.000000"
    /\ Cell(index, NumRows(index), "max") = "9"
    /\ Cell(index, NumRows(index), "raw_unit") = "ns"

====
